---- MODULE Spec2Model ----
(***************************************************************************)
(* Graphics asset compositor and widgets of the CT5061-IoT firmware:       *)
(* LedScreen128_64 asset management, DataPlot, Table, FunctionPlot and     *)
(* TextBox.  Every widget is modelled by its own group of variables and    *)
(* its own specification (SpecScreen, SpecData, ...); a specification      *)
(* leaves the variables of the other widgets at their constructed values.  *)
(***************************************************************************)
EXTENDS Integers, Sequences, FiniteSets, TLC

(***************************************************************************)
(* Bounds of the model (not program constants).                            *)
(***************************************************************************)
\* number of distinct GraphicsAsset objects the caller owns
NumAssets == 2
\* number of calls the caller makes on the compositor after constructing it
MaxOps == 5
\* largest capacity a DataPlot is constructed with
MaxCapacity == 3
\* data points the caller adds have the coordinates 0..MaxCoord
MaxCoord == 3
\* number of calls the caller makes on a DataPlot's buffer after constructing it
MaxDataOps == 5
\* a Table is constructed with 1..MaxRows rows and 1..MaxCols columns
MaxRows == 2
MaxCols == 2
\* box widths 0..MaxWidth of a Table (besides the widths 100 and 101)
MaxWidth == 5
\* number of calls the caller makes on a FunctionPlot after constructing it
MaxFunctionOps == 4
\* number of calls the caller makes on a Table after constructing it
MaxTableOps == 2
\* capacity of the DataPlot whose domain is set
MaxDomainCapacity == 1
\* largest width and height of the Bitmap a gradient is generated for
MaxSide == 6
\* largest capacity of the DataPlot that is revealed
MaxRevealCapacity == 2
\* number of buffers the caller allocates for a Bitmap
NumCallerBuffers == 2
\* number of buffers a Bitmap allocates
MaxGenerated == 2
\* number of calls the caller makes on a Bitmap after constructing it
MaxBitmapOps == 4
\* number of calls the caller makes on a Geometry after constructing it
MaxGeometryOps == 2
\* number of Device objects
NumDevices == 2
\* number of calls the caller makes on the DeviceRegistry and the devices
MaxRegistryOps == 3
\* number of calls the caller makes on a TextBox after constructing it
MaxTextOps == 7

(***************************************************************************)
(* Program constants.                                                      *)
(***************************************************************************)
MAX_SCREEN_ASSETS == 20

NULL == 0
AssetIds == 1..NumAssets
\* z-index values the caller passes to setZIndex (the constructor sets 0)
ZValues == {1, 5}

VARIABLES
    \* ---- LedScreen128_64 and the GraphicsAsset objects registered with it
    assets,               \* std::vector<GraphicsAsset*> assets
    display_initialized,  \* bool display_initialized
    zIndex,               \* GraphicsAsset::zIndex of every asset object
    visible,              \* GraphicsAsset::visible of every asset object
    drawLog,              \* the draw() calls issued by the last operation, in order
    \* ---- one DataPlot
    plot,                 \* the fields of the DataPlot object
    added,                \* history: the points passed to addPoint since the
                          \* construction or the last clearData()
    supplied,             \* history: the domain the caller last passed to setXRange
                          \* and to setYRange
    \* ---- one Table
    table,                \* the fields of the Table object
    \* ---- one FunctionPlot
    fplot,                \* the fields of the FunctionPlot object
    \* ---- one TextBox
    textBox,              \* the fields of the TextBox object
    \* ---- one Bitmap
    bitmap,               \* the fields of the Bitmap object
    heap,                 \* the uint8_t[] buffers: who must release each one and
                          \* how often it was deleted
    \* ---- one Geometry
    geometry,             \* the fields of the Geometry object
    \* ---- the DeviceRegistry and the queue of the Device class
    registry,             \* the fields of the DeviceRegistry singleton
    action_queue,         \* std::queue<DeviceAction> Device::action_queue
    \* ---- what the last draw() of a widget put on the display
    rendered,
    \* ---- the caller's position
    lastCall,             \* the most recent call: <<name, arguments...>>
    ret,                  \* what the most recent call returned
    ops                   \* number of calls made so far

screenVars == <<assets, display_initialized, zIndex, visible, drawLog>>
callerVars == <<lastCall, ret, ops>>
\* the variables of the widgets a LedScreen128_64 operation does not touch
widgetVars == <<plot, added, supplied, table, fplot, textBox, bitmap, heap, geometry, registry, action_queue, rendered>>
\* the variables an operation of one widget does not touch
exceptPlot == <<screenVars, table, fplot, textBox, bitmap, heap, geometry, registry, action_queue>>
exceptTable == <<screenVars, plot, added, supplied, fplot, textBox, bitmap, heap, geometry, registry, action_queue>>
exceptFPlot == <<screenVars, plot, added, supplied, table, textBox, bitmap, heap, geometry, registry, action_queue>>
exceptText == <<screenVars, plot, added, supplied, table, fplot, bitmap, heap, geometry, registry, action_queue>>
exceptBitmap == <<screenVars, plot, added, supplied, table, fplot, textBox, geometry, registry, action_queue>>
exceptGeometry == <<screenVars, plot, added, supplied, table, fplot, textBox, bitmap, heap, registry, action_queue>>
vars == <<assets, display_initialized, zIndex, visible, drawLog,
          plot, added, supplied, table, fplot, textBox, bitmap, heap, geometry,
          registry, action_queue, rendered, lastCall, ret, ops>>

NoRet == "void"

(***************************************************************************)
(* Sequence helpers.                                                       *)
(***************************************************************************)
Range(s) == {s[i] : i \in 1..Len(s)}

\* s without its element at position p
RemoveAt(s, p) == [i \in 1..(Len(s) - 1) |-> IF i < p THEN s[i] ELSE s[i + 1]]

\* s with x put in front of position p + 1 (p = 0 .. Len(s))
InsertAt(s, p, x) ==
    [i \in 1..(Len(s) + 1) |-> IF i <= p THEN s[i] ELSE IF i = p + 1 THEN x ELSE s[i - 1]]

\* number of positions of s that hold x
Count(s, x) == Cardinality({i \in 1..Len(s) : s[i] = x})

\* s with every occurrence of x dropped
Without(s, x) == SelectSeq(s, LAMBDA y : y # x)

(***************************************************************************)
(* float: IEEE-754 binary32 arithmetic, round to nearest, ties to even.    *)
(* A float is a pair <<m, e>> of integers.  A finite float has the value   *)
(* m * 2^e with |m| < 2^24, and is kept in its one normal form: zero is    *)
(* <<0, 0>>, otherwise 2^23 <= |m| unless e = FloatMinExp (a subnormal).   *)
(* <<1, FloatSpecial>> is +Inf, <<-1, FloatSpecial>> is -Inf and           *)
(* <<0, FloatSpecial>> is NaN.  All intermediate integers stay below 2^31. *)
(***************************************************************************)
\* Zero has no sign: 1/0 is +Inf (as for the +0 that x - x gives), and the
\* two infinities are told apart only by isinf.
\* bits of the significand
FloatPrecision == 24
\* exponent of the last bit of the largest finite float, (2^24 - 1) * 2^104
FloatMaxExp == 104
\* exponent of the last bit of the subnormal floats, 2^-149
FloatMinExp == -149
\* the exponent field that marks Inf and NaN
FloatSpecial == 9999

\* the pairs that stand for floats
Float == Int \X Int

FZero == <<0, 0>>
FInf == <<1, FloatSpecial>>
FNegInf == <<-1, FloatSpecial>>
FNaN == <<0, FloatSpecial>>

Abs(n) == IF n < 0 THEN -n ELSE n
Sgn(n) == IF n < 0 THEN -1 ELSE IF n > 0 THEN 1 ELSE 0
Min(a, b) == IF a <= b THEN a ELSE b
Max(a, b) == IF a >= b THEN a ELSE b

\* F(x), with x evaluated once however often F uses it
Let(x, F(_)) == CHOOSE r \in {F(v) : v \in {x}} : TRUE

IsSpecial(f) == f[2] = FloatSpecial
\* isnan(f)
isnan(f) == f = FNaN
\* isinf(f)
isinf(f) == f = FInf \/ f = FNegInf
IsFinite(f) == ~IsSpecial(f)

\* number of bits of n (0 <= n < 2^31)
BitLen[n \in Nat] ==
    IF n >= 2^30 THEN 31
    ELSE CHOOSE k \in 0..30 : n < 2^k /\ (k = 0 \/ n >= 2^(k - 1))

\* n * 2^k for k >= 0, and n div 2^(-k) for k < 0 (n >= 0)
Shift[n \in Nat, k \in Int] ==
    IF k >= 0 THEN n * 2^k
    ELSE IF -k > 30 THEN 0
    ELSE n \div 2^(-k)

\* RoundPack for a non-zero M that is shifted right by j bits (left by -j)
RoundAt[sign \in Int, M \in Nat, E \in Int, sticky \in BOOLEAN, j \in Int] ==
    IF j <= 0
    THEN \* exact: shift left into normal form
         <<sign * Shift[M, -j], E + j>>
    ELSE IF j > 30 THEN FZero
    ELSE
    LET q    == M \div 2^j
        r    == M % 2^j
        half == 2^(j - 1)
        up   == r > half \/ (r = half /\ (sticky \/ q % 2 = 1))
        q1   == IF up THEN q + 1 ELSE q
        m    == IF q1 = 2^FloatPrecision THEN 2^(FloatPrecision - 1) ELSE q1
        e    == IF q1 = 2^FloatPrecision THEN E + j + 1 ELSE E + j
    IN IF m = 0 THEN FZero
       ELSE IF e > FloatMaxExp THEN <<sign, FloatSpecial>>
       ELSE <<sign * m, e>>

\* the float nearest to sign * (M + frac) * 2^E, where M >= 0 is an integer
\* below 2^31, and frac is 0 when sticky is FALSE and some value strictly
\* between 0 and 1 when it is TRUE (M then has at least 26 bits)
RoundPack[sign \in Int, M \in Nat, E \in Int, sticky \in BOOLEAN] ==
    IF M = 0 THEN FZero
    ELSE RoundAt[sign, M, E, sticky, Max(BitLen[M] - FloatPrecision, FloatMinExp - E)]

\* (float)n for an int n
FromInt[n \in Int] == RoundPack[Sgn(n), Abs(n), 0, FALSE]

\* -f
FNeg[f \in Float] == <<-f[1], f[2]>>

\* a + b of two finite non-zero floats, a the one with the larger exponent
AddOrdered[a \in Float, b \in Float] ==
    LET d == a[2] - b[2]
    IN IF d <= 6
       THEN \* the exact sum is below 2^31
            LET sum == a[1] * 2^d + b[1]
            IN RoundPack[Sgn(sum), Abs(sum), b[2], FALSE]
       ELSE \* b in units of 2^(a[2] - 6): t whole units and a rest
            LET L    == Abs(a[1]) * 64
                t    == Shift[Abs(b[1]), -(d - 6)]
                rest == IF d - 6 > 30 THEN TRUE ELSE Abs(b[1]) % 2^(d - 6) # 0
            IN IF Sgn(a[1]) = Sgn(b[1])
               THEN RoundPack[Sgn(a[1]), L + t, a[2] - 6, rest]
               ELSE IF rest
                    THEN RoundPack[Sgn(a[1]), L - t - 1, a[2] - 6, TRUE]
                    ELSE RoundPack[Sgn(a[1]), L - t, a[2] - 6, FALSE]

\* a + b
FAdd[a \in Float, b \in Float] ==
    IF isnan(a) \/ isnan(b) THEN FNaN
    ELSE IF isinf(a) THEN (IF isinf(b) /\ a # b THEN FNaN ELSE a)
    ELSE IF isinf(b) THEN b
    ELSE IF a = FZero THEN b
    ELSE IF b = FZero THEN a
    ELSE IF a[2] >= b[2] THEN AddOrdered[a, b] ELSE AddOrdered[b, a]

\* a - b
FSub[a \in Float, b \in Float] == FAdd[a, FNeg[b]]

\* a < b
FLess[a \in Float, b \in Float] == ~isnan(a) /\ ~isnan(b) /\ FSub[a, b][1] < 0
\* a > b
FGreater[a \in Float, b \in Float] == FLess[b, a]
\* a <= b
FLessEq[a \in Float, b \in Float] == ~isnan(a) /\ ~isnan(b) /\ FSub[a, b][1] <= 0
\* a >= b
FGreaterEq[a \in Float, b \in Float] == FLessEq[b, a]

\* a finite non-zero float with its significand shifted up to 24 bits
\* (the exponent may then lie below FloatMinExp)
Normal[f \in Float] ==
    <<f[1] * 2^(FloatPrecision - BitLen[Abs(f[1])]),
      f[2] - (FloatPrecision - BitLen[Abs(f[1])])>>

\* na * nb of two finite non-zero floats with 24-bit significands
MulNormal[na \in Float, nb \in Float] ==
    LET aH  == Abs(na[1]) \div 4096
        aL  == Abs(na[1]) % 4096
        bH  == Abs(nb[1]) \div 4096
        bL  == Abs(nb[1]) % 4096
        low == aL * bL
        mid == aH * bL + aL * bH + (low \div 4096)
        top == aH * bH + (mid \div 4096)
        \* |na| * |nb| = top * 2^24 + t1 * 2^12 + t0
        t1  == mid % 4096
        t0  == low % 4096
    IN RoundPack[Sgn(na[1]) * Sgn(nb[1]), top * 32 + (t1 \div 128),
                 na[2] + nb[2] + 19, (t1 % 128 # 0) \/ (t0 # 0)]

\* a * b
FMul[a \in Float, b \in Float] ==
    IF isnan(a) \/ isnan(b) THEN FNaN
    ELSE IF isinf(a) \/ isinf(b)
         THEN (IF a = FZero \/ b = FZero THEN FNaN ELSE <<Sgn(a[1]) * Sgn(b[1]), FloatSpecial>>)
    ELSE IF a = FZero \/ b = FZero THEN FZero
    ELSE MulNormal[Normal[a], Normal[b]]

\* k more quotient bits of r / d (r < d): <<quotient, remainder>>
DivBits[r \in Nat, d \in Nat, q \in Nat, k \in Nat] ==
    IF k = 0 THEN <<q, r>>
    ELSE IF 2 * r >= d THEN DivBits[2 * r - d, d, 2 * q + 1, k - 1]
    ELSE DivBits[2 * r, d, 2 * q, k - 1]

\* RoundPack of a quotient qr = <<quotient, remainder>> of DivBits
PackQuotient[sign \in Int, qr \in Nat \X Nat, E \in Int] ==
    RoundPack[sign, qr[1], E, qr[2] # 0]

\* na / nb of two finite non-zero floats with 24-bit significands
DivNormal[na \in Float, nb \in Float] ==
    PackQuotient[Sgn(na[1]) * Sgn(nb[1]),
                 DivBits[Abs(na[1]) % Abs(nb[1]), Abs(nb[1]),
                         Abs(na[1]) \div Abs(nb[1]), 26],
                 na[2] - nb[2] - 26]

\* a / b
FDiv[a \in Float, b \in Float] ==
    IF isnan(a) \/ isnan(b) THEN FNaN
    ELSE IF isinf(a)
         THEN (IF isinf(b) THEN FNaN
               ELSE <<Sgn(a[1]) * (IF b[1] < 0 THEN -1 ELSE 1), FloatSpecial>>)
    ELSE IF isinf(b) THEN FZero
    ELSE IF b = FZero
         THEN (IF a = FZero THEN FNaN ELSE <<Sgn(a[1]), FloatSpecial>>)
    ELSE IF a = FZero THEN FZero
    ELSE DivNormal[Normal[a], Normal[b]]

\* (int)f of a finite float whose integer part is below 2^30: the value
\* truncated toward zero
FTrunc[f \in Float] ==
    IF f[2] >= 0 THEN f[1] * 2^f[2]
    ELSE Sgn(f[1]) * Shift[Abs(f[1]), f[2]]

\* whether the integer part of f fits in n bits (n <= 30), so that a
\* conversion to an n-bit signed integer is defined
FitsInt[f \in Float, n \in Nat] ==
    /\ IsFinite(f)
    /\ \/ f = FZero
       \/ f[2] + BitLen[Abs(f[1])] <= 0
       \/ /\ f[2] + BitLen[Abs(f[1])] <= n
          /\ (Abs(FTrunc[f]) < 2^(n - 1) \/ FTrunc[f] = -(2^(n - 1)))

(***************************************************************************)
(* LedScreen128_64: asset management (src/src/Table.cpp 688-733).          *)
(***************************************************************************)

\* off-by-one capacity test: accepts a 21st asset
addAssetOffByOne(list, asset) ==
    IF asset = NULL THEN [ret |-> FALSE, assets |-> list]
    ELSE IF Len(list) > MAX_SCREEN_ASSETS THEN [ret |-> FALSE, assets |-> list]
    ELSE [ret |-> TRUE, assets |-> Append(list, asset)]

\* bool LedScreen128_64::addAsset(GraphicsAsset* asset)
addAsset(list, asset) ==
    IF asset = NULL THEN [ret |-> FALSE, assets |-> list]
    ELSE IF Len(list) >= MAX_SCREEN_ASSETS THEN [ret |-> FALSE, assets |-> list]
    ELSE [ret |-> TRUE, assets |-> Append(list, asset)]

\* std::find(assets.begin(), assets.end(), asset): the first position holding
\* asset, or Len + 1 for assets.end()
stdFind(list, asset) ==
    IF \E i \in 1..Len(list) : list[i] = asset
    THEN CHOOSE i \in 1..Len(list) :
            list[i] = asset /\ \A j \in 1..(i - 1) : list[j] # asset
    ELSE Len(list) + 1

\* removal of the last match instead of the first
removeAssetLast(list, asset) ==
    IF asset = NULL THEN [ret |-> FALSE, assets |-> list]
    ELSE IF \E i \in 1..Len(list) : list[i] = asset
         THEN [ret |-> TRUE,
               assets |-> RemoveAt(list, CHOOSE i \in 1..Len(list) :
                            list[i] = asset /\ \A j \in (i + 1)..Len(list) : list[j] # asset)]
         ELSE [ret |-> FALSE, assets |-> list]

\* bool LedScreen128_64::removeAsset(GraphicsAsset* asset)
removeAsset(list, asset) ==
    IF asset = NULL THEN [ret |-> FALSE, assets |-> list]
    ELSE LET it == stdFind(list, asset)
         IN IF it # Len(list) + 1
            THEN [ret |-> TRUE, assets |-> RemoveAt(list, it)]
            ELSE [ret |-> FALSE, assets |-> list]

\* the comparator of drawAssets' std::sort (no element is null: addAsset
\* rejects null)
zLess(z, a, b) == z[a] < z[b]

RECURSIVE bagArrangements(_, _)
\* every sequence that holds each a of S exactly c[a] times
bagArrangements(S, c) ==
    IF \A a \in S : c[a] = 0 THEN {<<>>}
    ELSE UNION {{<<a>> \o t : t \in bagArrangements(S, [c EXCEPT ![a] = c[a] - 1])} :
                    a \in {x \in S : c[x] > 0}}

\* the elements of E that no element of E precedes under the comparator
minimalBy(z, E) == {a \in E : \A b \in E : ~zLess(z, b, a)}

RECURSIVE sortedFrom(_, _, _)
\* the arrangements of the occurrences in s of the elements E, ordered by the
\* comparator; elements that compare equal stand in any order
sortedFrom(z, s, E) ==
    IF E = {} THEN {<<>>}
    ELSE LET S == minimalBy(z, E)
             c == [a \in S |-> Count(s, a)]
         IN {h \o t : h \in bagArrangements(S, c), t \in sortedFrom(z, s, E \ S)}

\* the sort left out: assets stay, and are drawn, in insertion order
stdSortNone(z, s) == {s}

\* std::sort(assets.begin(), assets.end(), cmp) with cmp = zLess: every
\* arrangement of the elements that is ordered by cmp.  std::sort is not
\* stable, so elements with equal z-index end in any order.
stdSort(z, s) == sortedFrom(z, s, Range(s))

\* for (auto asset : assets) if (asset != nullptr && asset->isVisible()) asset->draw(this)
drawLoop(vis, s) == SelectSeq(s, LAMBDA a : a # NULL /\ vis[a])

RECURSIVE fillLoop(_, _)
\* a caller loop: while (screen.addAsset(a)) {}
fillLoop(list, a) ==
    LET r == addAsset(list, a)
    IN IF r.ret THEN fillLoop(r.assets, a) ELSE r

InitScreenVars ==
    /\ assets = <<>>
    /\ display_initialized = FALSE
    /\ zIndex = [a \in AssetIds |-> 0]
    /\ visible = [a \in AssetIds |-> TRUE]
    /\ drawLog = <<>>

InitCaller ==
    /\ lastCall = <<"new">>
    /\ ret = NoRet
    /\ ops = 0

\* the caller makes the call `call`, which returns r
Called(max, call, r) ==
    /\ ops < max
    /\ ops' = ops + 1
    /\ lastCall' = call
    /\ ret' = r

\* LedScreen128_64::begin(): ok is whether Device::begin() and
\* display->begin() both succeeded
Begin(ok) ==
    /\ display_initialized' = ok
    /\ Called(MaxOps, <<"begin">>, ok)
    /\ drawLog' = <<>>
    /\ UNCHANGED <<assets, zIndex, visible, widgetVars>>

AddAsset(a) ==
    /\ LET r == addAsset(assets, a)
       IN /\ assets' = r.assets
          /\ Called(MaxOps, <<"addAsset", a>>, r.ret)
    /\ drawLog' = <<>>
    /\ UNCHANGED <<display_initialized, zIndex, visible, widgetVars>>

\* addAsset(a) called on an empty collection until it fails
FillAssets(a) ==
    /\ assets = <<>>
    /\ LET r == fillLoop(assets, a)
       IN /\ assets' = r.assets
          /\ Called(MaxOps, <<"fillAssets", a>>, r.ret)
    /\ drawLog' = <<>>
    /\ UNCHANGED <<display_initialized, zIndex, visible, widgetVars>>

RemoveAsset(a) ==
    /\ LET r == removeAsset(assets, a)
       IN /\ assets' = r.assets
          /\ Called(MaxOps, <<"removeAsset", a>>, r.ret)
    /\ drawLog' = <<>>
    /\ UNCHANGED <<display_initialized, zIndex, visible, widgetVars>>

\* void LedScreen128_64::clearAssets()
ClearAssets ==
    /\ assets' = <<>>
    /\ Called(MaxOps, <<"clearAssets">>, NoRet)
    /\ drawLog' = <<>>
    /\ UNCHANGED <<display_initialized, zIndex, visible, widgetVars>>

\* void LedScreen128_64::drawAssets()
DrawAssets ==
    /\ IF ~display_initialized
       THEN /\ drawLog' = <<>>
            /\ UNCHANGED assets
       ELSE \E sorted \in stdSort(zIndex, assets) :
                /\ assets' = sorted
                /\ drawLog' = drawLoop(visible, sorted)
    /\ Called(MaxOps, <<"drawAssets">>, NoRet)
    /\ UNCHANGED <<display_initialized, zIndex, visible, widgetVars>>

\* void GraphicsAsset::setZIndex(int16_t zIndex)
SetZIndex(a, z) ==
    /\ zIndex' = [zIndex EXCEPT ![a] = z]
    /\ Called(MaxOps, <<"setZIndex", a>>, NoRet)
    /\ drawLog' = <<>>
    /\ UNCHANGED <<assets, display_initialized, visible, widgetVars>>

\* void GraphicsAsset::setVisible(bool visible)
SetVisible(a, v) ==
    /\ visible' = [visible EXCEPT ![a] = v]
    /\ Called(MaxOps, <<"setVisible", a>>, NoRet)
    /\ drawLog' = <<>>
    /\ UNCHANGED <<assets, display_initialized, zIndex, widgetVars>>

\* int LedScreen128_64::getAssetCount() const
getAssetCount == Len(assets)

(***************************************************************************)
(* DataPlot (src/unnamed/part_004 439-1146).                               *)
(***************************************************************************)

\* the content of a float array element that was never written
Uninit == <<0, FloatSpecial + 1>>

\* 0.1f
Tenth == FDiv[FromInt[1], FromInt[10]]
\* 0.0001f
RangeEpsilon == FDiv[FromInt[1], FromInt[10000]]

\* static void computeContentRect(x, y, width, height, axisLabelSize,
\* showAxisLabels, contentX, contentY, contentW, contentH) of DataPlot
computeContentRect(x, y, width, height, axisLabelSize, showAxisLabels) ==
    LET leftPad   == IF showAxisLabels THEN (6 * axisLabelSize) + 4 ELSE 2
        rightPad  == 2
        topPad    == 2
        bottomPad == IF showAxisLabels THEN (8 * axisLabelSize) + 4 ELSE 2
    IN [contentX |-> x + leftPad,
        contentY |-> y + topPad,
        contentW |-> Max(1, width - leftPad - rightPad),
        contentH |-> Max(1, height - topPad - bottomPad)]

\* DataPlot::DataPlot(x, y, width, height, capacity), capacity > 0, with the
\* default box (64 x 32 at the origin)
DataPlot(capacity) ==
    [x              |-> 0,
     y              |-> 0,
     width          |-> 64,
     height         |-> 32,
     gridSpacing    |-> 10,
     showAxisLabels |-> FALSE,
     axisLabelSize  |-> 1,
     useTinyAxisLabels      |-> FALSE,
     tinyAxisLabelScale     |-> 1,
     autoTinyAxisLabels     |-> TRUE,
     tinyLabelAutoThreshold |-> 36,
     maxTicks       |-> 0,
     dataX          |-> [i \in 0..(capacity - 1) |-> Uninit],
     dataY          |-> [i \in 0..(capacity - 1) |-> Uninit],
     dataSize       |-> 0,
     dataCapacity   |-> capacity,
     minX           |-> FZero,
     maxX           |-> FromInt[100],
     minY           |-> FZero,
     maxY           |-> FromInt[100],
     autoScale      |-> TRUE,
     visible        |-> TRUE,
     animate        |-> FALSE,
     animationFrame |-> 0]

\* on overflow the newest stored point is overwritten and nothing is shifted
addPointNoShift(p, x, y) ==
    IF p.dataSize < p.dataCapacity
    THEN [p EXCEPT !.dataX[p.dataSize] = x,
                   !.dataY[p.dataSize] = y,
                   !.dataSize = p.dataSize + 1]
    ELSE [p EXCEPT !.dataX[p.dataCapacity - 1] = x,
                   !.dataY[p.dataCapacity - 1] = y]

\* void DataPlot::addPoint(float x, float y), dataCapacity > 0
addPoint(p, x, y) ==
    IF p.dataSize < p.dataCapacity
    THEN [p EXCEPT !.dataX[p.dataSize] = x,
                   !.dataY[p.dataSize] = y,
                   !.dataSize = p.dataSize + 1]
    ELSE \* for (i = 0; i < dataCapacity - 1; i++) data[i] = data[i + 1];
         \* data[dataCapacity - 1] = the new point
         [p EXCEPT !.dataX = [i \in DOMAIN p.dataX |->
                                IF i < p.dataCapacity - 1 THEN p.dataX[i + 1] ELSE x],
                   !.dataY = [i \in DOMAIN p.dataY |->
                                IF i < p.dataCapacity - 1 THEN p.dataY[i + 1] ELSE y]]

\* void DataPlot::clearData()
clearData(p) == [p EXCEPT !.dataSize = 0]

\* void DataPlot::setData(const float* xData, const float* yData, int size),
\* the arrays given as sequences of at least `size' elements
setData(p, xData, yData, size) ==
    LET pointsToAdd == IF size < p.dataCapacity THEN size ELSE p.dataCapacity
    IN [clearData(p) EXCEPT
          !.dataX = [i \in DOMAIN p.dataX |->
                        IF i < pointsToAdd THEN xData[i + 1] ELSE p.dataX[i]],
          !.dataY = [i \in DOMAIN p.dataY |->
                        IF i < pointsToAdd THEN yData[i + 1] ELSE p.dataY[i]],
          !.dataSize = pointsToAdd]

\* void DataPlot::setXRange(float minX, float maxX)
setXRange(p, minX, maxX) ==
    IF FLess[minX, maxX]
    THEN [p EXCEPT !.minX = minX, !.maxX = maxX, !.autoScale = FALSE]
    ELSE p

\* void DataPlot::setYRange(float minY, float maxY)
setYRange(p, minY, maxY) ==
    IF FLess[minY, maxY]
    THEN [p EXCEPT !.minY = minY, !.maxY = maxY, !.autoScale = FALSE]
    ELSE p

\* void DataPlot::setAutoScale(bool autoScale)
setAutoScale(p, autoScale) == [p EXCEPT !.autoScale = autoScale]

\* bool DataPlot::getPoint(int index, float& x, float& y) const: the return
\* value and, when it is true, the point written to x and y
getPoint(p, index) ==
    IF index >= 0 /\ index < p.dataSize
    THEN <<TRUE, <<p.dataX[index], p.dataY[index]>> >>
    ELSE <<FALSE>>

\* int DataPlot::getDataSize() const
getDataSize(p) == p.dataSize

\* one iteration of the loop of calculateRanges: c holds calcMinX, calcMaxX,
\* calcMinY and calcMaxY
scanStep(p, i, c) ==
    [calcMinX |-> IF FLess[p.dataX[i], c.calcMinX] THEN p.dataX[i] ELSE c.calcMinX,
     calcMaxX |-> IF FGreater[p.dataX[i], c.calcMaxX] THEN p.dataX[i] ELSE c.calcMaxX,
     calcMinY |-> IF FLess[p.dataY[i], c.calcMinY] THEN p.dataY[i] ELSE c.calcMinY,
     calcMaxY |-> IF FGreater[p.dataY[i], c.calcMaxY] THEN p.dataY[i] ELSE c.calcMaxY]

RECURSIVE scanRanges(_, _, _)
\* the loop of calculateRanges from index i on
scanRanges(p, i, c) ==
    IF i >= p.dataSize THEN c
    ELSE Let(scanStep(p, i, c), LAMBDA next : scanRanges(p, i + 1, next))

\* the substitution of a unit range for a negligible one
unitIfNegligible[range \in Float] ==
    IF FLess[range, RangeEpsilon] THEN FromInt[1] ELSE range

\* the assignments that end calculateRanges, c the result of its loop
paddedRanges(p, c) ==
    [p EXCEPT
       !.minX = FSub[c.calcMinX, FMul[unitIfNegligible[FSub[c.calcMaxX, c.calcMinX]], Tenth]],
       !.maxX = FAdd[c.calcMaxX, FMul[unitIfNegligible[FSub[c.calcMaxX, c.calcMinX]], Tenth]],
       !.minY = FSub[c.calcMinY, FMul[unitIfNegligible[FSub[c.calcMaxY, c.calcMinY]], Tenth]],
       !.maxY = FAdd[c.calcMaxY, FMul[unitIfNegligible[FSub[c.calcMaxY, c.calcMinY]], Tenth]]]

\* void DataPlot::calculateRanges()
calculateRanges(p) ==
    IF p.dataSize = 0 THEN p
    ELSE Let(scanRanges(p, 1, [calcMinX |-> p.dataX[0], calcMaxX |-> p.dataX[0],
                               calcMinY |-> p.dataY[0], calcMaxY |-> p.dataY[0]]),
             LAMBDA c : paddedRanges(p, c))

\* the range test of the plot loop: point i is plotted, not skipped
inRange(p, i) ==
    ~(\/ FLess[p.dataX[i], p.minX] \/ FGreater[p.dataX[i], p.maxX]
      \/ FLess[p.dataY[i], p.minY] \/ FGreater[p.dataY[i], p.maxY])

\* the indices lo..(hi - 1) in ascending order
RECURSIVE Indices(_, _)
Indices(lo, hi) == IF lo >= hi THEN <<>> ELSE <<lo>> \o Indices(lo + 1, hi)

\* the animation step advances the counter but the plot loop runs over the
\* whole series
drawPointsAtOnce(p) ==
    LET animating == p.animate /\ p.animationFrame < p.dataSize
    IN [plot     |-> IF animating
                     THEN [p EXCEPT !.animationFrame = p.animationFrame + 1]
                     ELSE p,
        rendered |-> SelectSeq(Indices(0, p.dataSize), LAMBDA i : inRange(p, i))]

\* DataPlot::draw after the ranges are settled: the animation step and the
\* plot loop
drawPoints(p) ==
    LET animating == p.animate /\ p.animationFrame < p.dataSize
        maxPoints == IF animating THEN p.animationFrame ELSE p.dataSize
    IN [plot     |-> IF animating
                     THEN [p EXCEPT !.animationFrame = p.animationFrame + 1]
                     ELSE p,
        rendered |-> SelectSeq(Indices(0, maxPoints), LAMBDA i : inRange(p, i))]

\* void DataPlot::draw(LedScreen128_64* screen), screen not null: the fields
\* after the call and the indices of the data points it plotted, in order
DataPlot_draw(p) ==
    IF ~p.visible \/ p.dataSize = 0 THEN [plot |-> p, rendered |-> <<>>]
    ELSE Let(IF p.autoScale THEN calculateRanges(p) ELSE p,
             LAMBDA scaled : drawPoints(scaled))

\* the content rectangle of the plot p, as DataPlot::draw computes it
plotContentRect(p) ==
    computeContentRect(p.x, p.y, p.width, p.height, p.axisLabelSize, p.showAxisLabels)

\* void DataPlot::setShowAxisLabels(bool show)
setShowAxisLabels(p, show) == [p EXCEPT !.showAxisLabels = show]

\* void DataPlot::setMaxTicks(uint8_t max)
setMaxTicks(p, max) == [p EXCEPT !.maxTicks = max]

\* round(f) of a finite float: the nearest integer, halves away from zero
FRound[f \in Float] ==
    IF f[2] >= 0 THEN f[1] * 2^f[2]
    ELSE IF -f[2] > 30 THEN 0
    ELSE LET q == Abs(f[1]) \div 2^(-f[2])
             r == Abs(f[1]) % 2^(-f[2])
         IN Sgn(f[1]) * (IF 2 * r >= 2^(-f[2]) THEN q + 1 ELSE q)

\* |f| in tenths as "%.1f" prints it: the exact value rounded to the nearest
\* tenth, halves to even
Tenths[f \in Float] ==
    IF f[2] >= 0 THEN Abs(f[1]) * 10 * 2^f[2]
    ELSE IF -f[2] > 30 THEN 0
    ELSE LET q == (Abs(f[1]) * 10) \div 2^(-f[2])
             r == (Abs(f[1]) * 10) % 2^(-f[2])
         IN IF 2 * r > 2^(-f[2]) \/ (2 * r = 2^(-f[2]) /\ q % 2 = 1) THEN q + 1 ELSE q

\* number of decimal digits of n
Digits[n \in Nat] == IF n < 10 THEN 1 ELSE 1 + Digits[n \div 10]

\* 0.001f
Thousandth == FDiv[FromInt[1], FromInt[1000]]

\* strlen(buf) of a tick label: "%d" of (int)dataValue when dataValue is
\* within 0.001 of it and "%.1f" otherwise, in a buffer of 12 characters
labelLength[dataValue \in Float] ==
    LET n    == FTrunc[dataValue]
        diff == FSub[dataValue, FromInt[n]]
        fabs == IF diff[1] < 0 THEN FNeg[diff] ELSE diff
    IN Min(11, IF FLess[fabs, Thousandth]
               THEN Digits[Abs(n)] + (IF n < 0 THEN 1 ELSE 0)
               ELSE Digits[Tenths[dataValue] \div 10] + 2
                        + (IF dataValue[1] < 0 THEN 1 ELSE 0))

RECURSIVE gridTicks(_, _, _)
\* for (i = gridSpacing; i < contentW; i += gridSpacing): the values of i
gridTicks(i, gridSpacing, contentW) ==
    IF i >= contentW THEN <<>>
    ELSE <<i>> \o gridTicks(i + gridSpacing, gridSpacing, contentW)

\* the pixel offsets i of the X ticks that DataPlot::draw visits, in order
xTicks(p, contentW) ==
    IF p.maxTicks > 1
    THEN [k \in 1..p.maxTicks |->
            FRound[FMul[FromInt[k - 1],
                        FDiv[FromInt[contentW - 1], FromInt[p.maxTicks - 1]]]]]
    ELSE IF p.gridSpacing <= 0 \/ p.gridSpacing >= contentW
         THEN <<0, contentW - 1>>
         ELSE gridTicks(p.gridSpacing, p.gridSpacing, contentW)

\* the X tick label at the pixel offset i: its left edge, its pixel width and
\* the number of characters
xTickLabel(p, rect, i) ==
    LET normalized == IF rect.contentW > 1
                      THEN FDiv[FromInt[i], FromInt[rect.contentW - 1]] ELSE FZero
        dataValue  == FAdd[p.minX, FMul[normalized, FSub[p.maxX, p.minX]]]
        effectiveTiny == p.useTinyAxisLabels
                            \/ (p.autoTinyAxisLabels
                                    /\ rect.contentW <= p.tinyLabelAutoThreshold)
        charW  == IF effectiveTiny
                  THEN 3 * p.tinyAxisLabelScale + p.tinyAxisLabelScale
                  ELSE 6 * p.axisLabelSize
        labelW == labelLength[dataValue] * charW
    IN [labelX |-> (rect.contentX + i) - (labelW \div 2),
        labelW |-> labelW,
        chars  |-> labelLength[dataValue]]

\* if (prevLabelX < -1000 || abs(labelX - prevLabelX) >= (labelW + 2))
drawsLabel(prevLabelX, label) ==
    prevLabelX < -1000 \/ Abs(label.labelX - prevLabelX) >= label.labelW + 2

RECURSIVE xLabelLoop(_, _, _, _, _)
\* the loop over the X ticks from the k-th on: the labels drawn, in order
xLabelLoop(p, rect, ticks, k, prevLabelX) ==
    IF k > Len(ticks) THEN <<>>
    ELSE LET label == xTickLabel(p, rect, ticks[k])
         IN IF drawsLabel(prevLabelX, label)
            THEN <<label>> \o xLabelLoop(p, rect, ticks, k + 1, label.labelX)
            ELSE xLabelLoop(p, rect, ticks, k + 1, prevLabelX)

\* DataPlot::draw, "Draw X axis tick labels": the labels it draws for the
\* plot p, whose domain draw() has settled
drawXTickLabels(p) ==
    IF ~p.visible \/ p.dataSize = 0 \/ ~p.showAxisLabels THEN <<>>
    ELSE xLabelLoop(p, plotContentRect(p), xTicks(p, plotContentRect(p).contentW),
                    1, -9999)

\* void GraphicsAsset::setWidth(int16_t width)
setWidth(w, width) == [w EXCEPT !.width = width]

\* void GraphicsAsset::setAnimate(bool animate)
setAnimate(w, animate) == [w EXCEPT !.animate = animate]

\* the points the caller adds: (k, k) for k in 0..MaxCoord, and one point
\* whose coordinates differ
PlotPoints ==
    {<<FromInt[k], FromInt[k]>> : k \in 0..MaxCoord} \cup {<<FromInt[0], FromInt[MaxCoord]>>}

\* no domain was passed to the range setter of an axis yet
NoDomain == <<>>

InitPlot(capacity) ==
    /\ plot = DataPlot(capacity)
    /\ added = <<>>
    /\ supplied = [x |-> NoDomain, y |-> NoDomain]

AddPoint(x, y) ==
    /\ plot' = addPoint(plot, x, y)
    /\ added' = Append(added, <<x, y>>)
    /\ rendered' = <<>>
    /\ Called(MaxDataOps, <<"addPoint", x, y>>, NoRet)
    /\ UNCHANGED <<exceptPlot, supplied>>

ClearData ==
    /\ plot' = clearData(plot)
    /\ added' = <<>>
    /\ rendered' = <<>>
    /\ Called(MaxDataOps, <<"clearData">>, NoRet)
    /\ UNCHANGED <<exceptPlot, supplied>>

SetData(xData, yData, size) ==
    /\ size <= Len(xData) /\ size <= Len(yData)
    /\ plot' = setData(plot, xData, yData, size)
    /\ added' = [i \in 1..Min(size, plot.dataCapacity) |-> <<xData[i], yData[i]>>]
    /\ rendered' = <<>>
    /\ Called(MaxDataOps, <<"setData", size>>, NoRet)
    /\ UNCHANGED <<exceptPlot, supplied>>

GetPoint(index) ==
    /\ Called(MaxDataOps, <<"getPoint", index>>, getPoint(plot, index))
    /\ rendered' = <<>>
    /\ UNCHANGED <<exceptPlot, plot, added, supplied>>

PlotDraw ==
    /\ \E r \in {DataPlot_draw(plot)} :
          /\ plot' = r.plot
          /\ rendered' = r.rendered
    /\ Called(MaxDataOps, <<"DataPlot::draw">>, NoRet)
    /\ UNCHANGED <<exceptPlot, added, supplied>>

PlotSetXRange(minX, maxX) ==
    /\ plot' = setXRange(plot, minX, maxX)
    /\ supplied' = IF FLess[minX, maxX] THEN [supplied EXCEPT !.x = <<minX, maxX>>]
                   ELSE supplied
    /\ rendered' = <<>>
    /\ Called(MaxDataOps, <<"setXRange", minX, maxX>>, NoRet)
    /\ UNCHANGED <<exceptPlot, added>>

PlotSetYRange(minY, maxY) ==
    /\ plot' = setYRange(plot, minY, maxY)
    /\ supplied' = IF FLess[minY, maxY] THEN [supplied EXCEPT !.y = <<minY, maxY>>]
                   ELSE supplied
    /\ rendered' = <<>>
    /\ Called(MaxDataOps, <<"setYRange", minY, maxY>>, NoRet)
    /\ UNCHANGED <<exceptPlot, added>>

PlotSetAutoScale(autoScale) ==
    /\ plot' = setAutoScale(plot, autoScale)
    /\ rendered' = <<>>
    /\ Called(MaxDataOps, <<"setAutoScale", autoScale>>, NoRet)
    /\ UNCHANGED <<exceptPlot, added, supplied>>

PlotSetShowAxisLabels(show) ==
    /\ plot' = setShowAxisLabels(plot, show)
    /\ rendered' = <<>>
    /\ Called(MaxDataOps, <<"setShowAxisLabels", show>>, NoRet)
    /\ UNCHANGED <<exceptPlot, added, supplied>>

PlotSetMaxTicks(max) ==
    /\ plot' = setMaxTicks(plot, max)
    /\ rendered' = <<>>
    /\ Called(MaxDataOps, <<"setMaxTicks", max>>, NoRet)
    /\ UNCHANGED <<exceptPlot, added, supplied>>

PlotSetWidth(width) ==
    /\ plot' = setWidth(plot, width)
    /\ rendered' = <<>>
    /\ Called(MaxDataOps, <<"setWidth", width>>, NoRet)
    /\ UNCHANGED <<exceptPlot, added, supplied>>

PlotSetAnimate(animate) ==
    /\ plot' = setAnimate(plot, animate)
    /\ rendered' = <<>>
    /\ Called(MaxDataOps, <<"setAnimate", animate>>, NoRet)
    /\ UNCHANGED <<exceptPlot, added, supplied>>

(***************************************************************************)
(* Table (src/src/Table.cpp 1-329).  A String is a sequence of characters. *)
(***************************************************************************)

\* a / b of two ints, b # 0: C++ division truncates toward zero
CDiv(a, b) == Sgn(a) * Sgn(b) * (Abs(a) \div Abs(b))

\* the column is not tested against 0: column -1 of a row is the last cell of
\* the row before it
getCellIndexNoLowerBound(t, row, col) ==
    IF row >= 0 /\ row < t.rows /\ col < t.cols
    THEN row * t.cols + col
    ELSE -1

\* int Table::getCellIndex(int row, int col) const
getCellIndex(t, row, col) ==
    IF row >= 0 /\ row < t.rows /\ col >= 0 /\ col < t.cols
    THEN row * t.cols + col
    ELSE -1

\* the remainder goes to the first column instead of the last
calculateColumnWidthsFirst(t) ==
    IF t.cols = 0 THEN t
    ELSE
    LET availableWidth == t.width - 2
        equalWidth     == CDiv(availableWidth, t.cols)
        remainder      == availableWidth - (equalWidth * t.cols)
    IN [t EXCEPT !.colWidths = [i \in 0..(t.cols - 1) |->
            IF i = 0 /\ remainder > 0 /\ t.cols > 0
            THEN equalWidth + remainder ELSE equalWidth]]

\* void Table::calculateColumnWidths(), colWidths allocated
calculateColumnWidths(t) ==
    IF t.cols = 0 THEN t
    ELSE
    LET availableWidth == t.width - 2
        equalWidth     == CDiv(availableWidth, t.cols)
        remainder      == availableWidth - (equalWidth * t.cols)
    IN [t EXCEPT !.colWidths = [i \in 0..(t.cols - 1) |->
            IF i = t.cols - 1 /\ remainder > 0 /\ t.cols > 0
            THEN equalWidth + remainder ELSE equalWidth]]

\* Table::Table(x, y, width, height, rows, cols) with rows > 0 and cols > 0
\* (both arrays are allocated), x = y = 0
Table(width, height, rows, cols) ==
    calculateColumnWidths(
        [x              |-> 0,
         y              |-> 0,
         width          |-> width,
         height         |-> height,
         visible        |-> TRUE,
         rows           |-> rows,
         cols           |-> cols,
         cells          |-> [i \in 0..(rows * cols - 1) |-> <<>>],
         colWidths      |-> [i \in 0..(cols - 1) |-> 0],
         rowHeight      |-> 10,
         textSize       |-> 1,
         showHeaders    |-> TRUE,
         autoFitColumns |-> TRUE])

\* the text is cut to 3 characters when it is stored
setCellTruncated(t, row, col, text) ==
    LET index == getCellIndex(t, row, col)
    IN IF index >= 0
       THEN [t EXCEPT !.cells[index] = SubSeq(text, 1, Min(Len(text), 3))]
       ELSE t

\* void Table::setCell(int row, int col, const String& text)
setCell(t, row, col, text) ==
    LET index == getCellIndex(t, row, col)
    IN IF index >= 0 THEN [t EXCEPT !.cells[index] = text] ELSE t

\* String Table::getCell(int row, int col) const
getCell(t, row, col) ==
    LET index == getCellIndex(t, row, col)
    IN IF index >= 0 THEN t.cells[index] ELSE <<>>

\* void Table::clearCell(int row, int col)
clearCell(t, row, col) ==
    LET index == getCellIndex(t, row, col)
    IN IF index >= 0 THEN [t EXCEPT !.cells[index] = <<>>] ELSE t

\* the cells keep their position in the store, not their row and column
resizeInPlace(t, newRows, newCols) ==
    IF newRows <= 0 \/ newCols <= 0 THEN [table |-> t, ret |-> FALSE]
    ELSE [table |-> [t EXCEPT
            !.cells = [i \in 0..(newRows * newCols - 1) |->
                         IF i < t.rows * t.cols THEN t.cells[i] ELSE <<>>],
            !.colWidths = [c \in 0..(newCols - 1) |->
                             IF c < t.cols THEN t.colWidths[c] ELSE CDiv(t.width, newCols)],
            !.rows = newRows,
            !.cols = newCols],
          ret |-> TRUE]

\* bool Table::resize(int newRows, int newCols) on a table constructed with
\* rows > 0 and cols > 0: the fields after the call and the return value
resize(t, newRows, newCols) ==
    IF newRows <= 0 \/ newCols <= 0 THEN [table |-> t, ret |-> FALSE]
    ELSE [table |-> [t EXCEPT
            \* newCells[r * newCols + c] = cells[r * cols + c] for r < rows
            \* and c < cols; the other Strings of new String[] are empty
            !.cells = [i \in 0..(newRows * newCols - 1) |->
                         IF (i \div newCols) < t.rows /\ (i % newCols) < t.cols
                         THEN t.cells[(i \div newCols) * t.cols + (i % newCols)]
                         ELSE <<>>],
            !.colWidths = [c \in 0..(newCols - 1) |->
                             IF c < t.cols THEN t.colWidths[c] ELSE CDiv(t.width, newCols)],
            !.rows = newRows,
            !.cols = newCols],
          ret |-> TRUE]

Resize(newRows, newCols) ==
    /\ \E r \in {resize(table, newRows, newCols)} :
          /\ table' = r.table
          /\ Called(MaxTableOps, <<"resize", newRows, newCols>>, r.ret)
    /\ rendered' = <<>>
    /\ UNCHANGED exceptTable

\* void Table::setAutoFitColumns(bool autoFit)
setAutoFitColumns(t, autoFit) ==
    LET flagged == [t EXCEPT !.autoFitColumns = autoFit]
    IN IF autoFit THEN calculateColumnWidths(flagged) ELSE flagged

\* void Table::setColumnWidth(int col, int width)
setColumnWidth(t, col, width) ==
    IF col >= 0 /\ col < t.cols /\ width > 0
    THEN [t EXCEPT !.colWidths[col] = width, !.autoFitColumns = FALSE]
    ELSE t

\* int Table::getColumnWidth(int col) const
getColumnWidth(t, col) ==
    IF col >= 0 /\ col < t.cols THEN t.colWidths[col] ELSE 0

\* Table::drawCell: the text printed for the cell (row, col) drawn cellW wide
drawCell(t, row, col, cellW) ==
    LET cellText    == t.cells[getCellIndex(t, row, col)]
        charWidth   == 6 * t.textSize
        maxChars    == CDiv(cellW - 4, charWidth)
        \* displayText.length() > maxChars compares as unsigned int: a
        \* negative maxChars converts to a value above every length
        longer      == IF maxChars < 0 THEN FALSE ELSE Len(cellText) > maxChars
    IN IF longer /\ maxChars > 0 THEN SubSeq(cellText, 1, maxChars) ELSE cellText

RECURSIVE drawCols(_, _, _, _)
\* the column loop of Table::draw from column col on with currentX as given:
\* <<row, col, text>> of every cell drawn
drawCols(t, row, col, currentX) ==
    IF ~(col < t.cols /\ currentX < t.x + t.width) THEN <<>>
    ELSE
    LET cellWidth == IF currentX + t.colWidths[col] > t.x + t.width
                     THEN t.x + t.width - currentX
                     ELSE t.colWidths[col]
    IN <<<<row, col, drawCell(t, row, col, cellWidth)>>>>
       \o drawCols(t, row, col + 1, currentX + cellWidth)

RECURSIVE drawRows(_, _, _)
\* the row loop of Table::draw from row on with currentY as given
drawRows(t, row, currentY) ==
    IF ~(row < t.rows /\ currentY < t.y + t.height) THEN <<>>
    ELSE
    LET currentRowHeight == IF t.showHeaders /\ row = 0
                            THEN t.rowHeight + 2 ELSE t.rowHeight
    IN IF currentY + currentRowHeight > t.y + t.height THEN <<>>
       ELSE drawCols(t, row, 0, t.x + 1)
            \o drawRows(t, row + 1, currentY + currentRowHeight)

\* void Table::draw(LedScreen128_64* screen), screen not null: the fields
\* after the call and the cells it printed
Table_draw(t) ==
    IF ~t.visible \/ t.rows = 0 \/ t.cols = 0 THEN [table |-> t, rendered |-> <<>>]
    ELSE
    LET fitted == IF t.autoFitColumns THEN calculateColumnWidths(t) ELSE t
    IN [table |-> fitted, rendered |-> drawRows(fitted, 0, fitted.y + 1)]

\* the texts the caller stores in cells
CellTexts == {<<>>, <<"a">>, <<"a", "b", "c", "d">>}

InitTable(width, height, rows, cols) == table = Table(width, height, rows, cols)

SetCell(row, col, text) ==
    /\ table' = setCell(table, row, col, text)
    /\ rendered' = <<>>
    /\ Called(MaxTableOps, <<"setCell", row, col, text>>, NoRet)
    /\ UNCHANGED exceptTable

GetCell(row, col) ==
    /\ Called(MaxTableOps, <<"getCell", row, col>>, getCell(table, row, col))
    /\ rendered' = <<>>
    /\ UNCHANGED <<exceptTable, table>>

ClearCell(row, col) ==
    /\ table' = clearCell(table, row, col)
    /\ rendered' = <<>>
    /\ Called(MaxTableOps, <<"clearCell", row, col>>, NoRet)
    /\ UNCHANGED exceptTable

TableDraw ==
    /\ \E r \in {Table_draw(table)} :
          /\ table' = r.table
          /\ rendered' = r.rendered
    /\ Called(MaxTableOps, <<"Table::draw">>, NoRet)
    /\ UNCHANGED exceptTable

TableSetWidth(width) ==
    /\ table' = setWidth(table, width)
    /\ rendered' = <<>>
    /\ Called(MaxTableOps, <<"setWidth", width>>, NoRet)
    /\ UNCHANGED exceptTable

SetAutoFitColumns(autoFit) ==
    /\ table' = setAutoFitColumns(table, autoFit)
    /\ rendered' = <<>>
    /\ Called(MaxTableOps, <<"setAutoFitColumns", autoFit>>, NoRet)
    /\ UNCHANGED exceptTable

SetColumnWidth(col, width) ==
    /\ table' = setColumnWidth(table, col, width)
    /\ rendered' = <<>>
    /\ Called(MaxTableOps, <<"setColumnWidth", col, width>>, NoRet)
    /\ UNCHANGED exceptTable

(***************************************************************************)
(* FunctionPlot (src/src/FunctionPlot.cpp).                                *)
(***************************************************************************)

\* computeContentRectFP: the inner rectangle that is plotted in
computeContentRectFP(x, y, width, height, axisLabelSize, showAxisLabels) ==
    LET leftPad   == IF showAxisLabels THEN (6 * axisLabelSize) + 4 ELSE 2
        rightPad  == 2
        topPad    == 2
        bottomPad == IF showAxisLabels THEN (8 * axisLabelSize) + 4 ELSE 2
    IN [contentX |-> x + leftPad,
        contentY |-> y + topPad,
        contentW |-> Max(1, width - leftPad - rightPad),
        contentH |-> Max(1, height - topPad - bottomPad)]

\* the content rectangle of the plot fp
contentRect(fp) ==
    computeContentRectFP(fp.x, fp.y, fp.width, fp.height, fp.axisLabelSize, fp.showAxisLabels)

\* the functions the caller plots: float (*)(float)
Reciprocal == "1.0f / x"
Identity == "x"
\* the null function pointer
NoFunction == "nullptr"
MathFunctions == {Reciprocal, Identity}
\* function(fx), function not null
callFunction(function, fx) ==
    IF function = Reciprocal THEN FDiv[FromInt[1], fx] ELSE fx

\* FunctionPlot::FunctionPlot(x, y, width, height, func), x = y = 0
FunctionPlot(width, height, func) ==
    [x              |-> 0,
     y              |-> 0,
     width          |-> width,
     height         |-> height,
     visible        |-> TRUE,
     animate        |-> FALSE,
     function       |-> func,
     minX           |-> FromInt[-10],
     maxX           |-> FromInt[10],
     minY           |-> FromInt[-10],
     maxY           |-> FromInt[10],
     autoScaleY     |-> FALSE,
     showAxisLabels |-> FALSE,
     axisLabelSize  |-> 1,
     animationFrame |-> 0]

\* the results a build can give for (int16_t)v when v is NaN or its integer
\* part is outside -32768..32767: any int16_t; these three stand for all
UndefinedInt16 == {-32768, 0, 32767}

\* (int16_t)v: the possible results
castInt16[v \in Float] == IF FitsInt[v, 16] THEN {FTrunc[v]} ELSE UndefinedInt16

\* minX + (maxX - minX) * (float)i / (float)(n - 1): sample i of n
sampleX(fp, i, n) ==
    FAdd[fp.minX, FDiv[FMul[FSub[fp.maxX, fp.minX], FromInt[i]], FromInt[n - 1]]]

\* int16_t FunctionPlot::mapX(float fx) const: the possible results
FunctionPlot_mapX(fp, fx) ==
    {contentRect(fp).contentX + c :
        c \in castInt16[FMul[FDiv[FSub[fx, fp.minX], FSub[fp.maxX, fp.minX]],
                             FromInt[contentRect(fp).contentW - 1]]]}

\* int16_t FunctionPlot::mapY(float fy) const: the possible results
FunctionPlot_mapY(fp, fy) ==
    {contentRect(fp).contentY + contentRect(fp).contentH - 1 - c :
        c \in castInt16[FMul[FDiv[FSub[fy, fp.minY], FSub[fp.maxY, fp.minY]],
                             FromInt[contentRect(fp).contentH - 1]]]}

\* the loop of calculateYRange at sample i with the value fy: c holds
\* calcMinY, calcMaxY and foundValid
rangeStep(c, fy) ==
    IF isnan(fy) \/ isinf(fy) THEN c
    ELSE [calcMinY   |-> IF FLess[fy, c.calcMinY] THEN fy ELSE c.calcMinY,
          calcMaxY   |-> IF FGreater[fy, c.calcMaxY] THEN fy ELSE c.calcMaxY,
          foundValid |-> TRUE]

RECURSIVE scanYRange(_, _, _, _)
\* the loop of calculateYRange from sample i on
scanYRange(fp, i, samples, c) ==
    IF i >= samples THEN c
    ELSE Let(rangeStep(c, callFunction(fp.function, sampleX(fp, i, samples))),
             LAMBDA next : scanYRange(fp, i + 1, samples, next))

\* the assignments that end calculateYRange, c the result of its loop
paddedYRange(fp, c) ==
    IF c.foundValid /\ FLess[c.calcMinY, c.calcMaxY]
    THEN [fp EXCEPT
            !.minY = FSub[c.calcMinY, FMul[FSub[c.calcMaxY, c.calcMinY], Tenth]],
            !.maxY = FAdd[c.calcMaxY, FMul[FSub[c.calcMaxY, c.calcMinY], Tenth]]]
    ELSE fp

\* void FunctionPlot::calculateYRange(), function not null
calculateYRange(fp) ==
    Let(scanYRange(fp, 0, fp.width * 2,
                   [calcMinY |-> FromInt[1000000], calcMaxY |-> FromInt[-1000000],
                    foundValid |-> FALSE]),
        LAMBDA c : paddedYRange(fp, c))

\* what the plot loop does with the valid sample i mapped to (screenX,
\* screenY): a line from the previous sample or a point; st holds prevValid,
\* prevScreenX, prevScreenY and the drawing calls issued so far
plotSample(fp, i, st, screenX, screenY) ==
    [prevValid   |-> TRUE,
     prevScreenX |-> screenX,
     prevScreenY |-> screenY,
     out         |-> Append(st.out,
        IF st.prevValid /\ Abs(screenY - st.prevScreenY) < fp.height
        THEN [call |-> "drawLine", sample |-> i,
              x0 |-> st.prevScreenX, y0 |-> st.prevScreenY, x1 |-> screenX, y1 |-> screenY]
        ELSE [call |-> "drawPixel", sample |-> i, x |-> screenX, y |-> screenY])]

\* a sample without a value inside the Y domain leaves prevValid as it was
sampleStepKeepValid(fp, i, st, fx, fy) ==
    IF isnan(fy) \/ isinf(fy) THEN {st}
    ELSE IF FLess[fy, fp.minY] \/ FGreater[fy, fp.maxY] THEN {st}
    ELSE {plotSample(fp, i, st, screenX, screenY) :
            screenX \in FunctionPlot_mapX(fp, fx), screenY \in FunctionPlot_mapY(fp, fy)}

\* one iteration of the plot loop for the sample i at fx with the value fy:
\* the possible loop states after it
sampleStep(fp, i, st, fx, fy) ==
    IF isnan(fy) \/ isinf(fy) THEN {[st EXCEPT !.prevValid = FALSE]}
    ELSE IF FLess[fy, fp.minY] \/ FGreater[fy, fp.maxY] THEN {[st EXCEPT !.prevValid = FALSE]}
    ELSE {plotSample(fp, i, st, screenX, screenY) :
            screenX \in FunctionPlot_mapX(fp, fx), screenY \in FunctionPlot_mapY(fp, fy)}

RECURSIVE plotRange(_, _, _, _)
\* the iterations lo..hi-1 of the plot loop, run from each of the loop states
\* in `states': the possible loop states after them.  A range of several
\* iterations is run as its first half followed by its second half.
plotRange(fp, lo, hi, states) ==
    IF hi <= lo THEN states
    ELSE IF hi = lo + 1
    THEN UNION {sampleStep(fp, lo, st, fx, callFunction(fp.function, fx)) :
                  st \in states, fx \in {sampleX(fp, lo, contentRect(fp).contentW)}}
    ELSE Let(plotRange(fp, lo, (lo + hi) \div 2, states),
             LAMBDA half : plotRange(fp, (lo + hi) \div 2, hi, half))

\* the plot loop from sample i on: the possible sequences of drawing calls
plotLoop(fp, i, maxPixels, st) == {last.out : last \in plotRange(fp, i, maxPixels, {st})}

\* FunctionPlot::draw after the Y range is settled: the animation step and
\* the plot loop
drawSamples(fp) ==
    LET contentW  == contentRect(fp).contentW
        animating == fp.animate /\ fp.animationFrame < contentW
        maxPixels == IF animating THEN fp.animationFrame ELSE contentW
        after     == IF animating
                     THEN [fp EXCEPT !.animationFrame = fp.animationFrame + 1]
                     ELSE fp
    IN {[fplot |-> after, rendered |-> out] :
          out \in plotLoop(fp, 0, maxPixels,
                           [prevValid |-> FALSE, prevScreenX |-> -1, prevScreenY |-> -1,
                            out |-> <<>>])}

\* void FunctionPlot::draw(LedScreen128_64* screen), screen not null: the
\* possible results, each the fields after the call and the drawing calls of
\* the plot loop
FunctionPlot_draw(fp) ==
    IF ~fp.visible \/ fp.function = NoFunction THEN {[fplot |-> fp, rendered |-> <<>>]}
    ELSE UNION {drawSamples(scaled) :
                  scaled \in {IF fp.autoScaleY THEN calculateYRange(fp) ELSE fp}}

\* void FunctionPlot::setXRange(float minX, float maxX)
FunctionPlot_setXRange(fp, minX, maxX) ==
    IF FLess[minX, maxX] THEN [fp EXCEPT !.minX = minX, !.maxX = maxX] ELSE fp

InitFPlot(width, height, func) == fplot = FunctionPlot(width, height, func)

FPlotDraw ==
    /\ \E r \in FunctionPlot_draw(fplot) :
          /\ fplot' = r.fplot
          /\ rendered' = r.rendered
    /\ Called(MaxFunctionOps, <<"FunctionPlot::draw">>, NoRet)
    /\ UNCHANGED exceptFPlot

FPlotSetAnimate(animate) ==
    /\ fplot' = setAnimate(fplot, animate)
    /\ rendered' = <<>>
    /\ Called(MaxFunctionOps, <<"setAnimate", animate>>, NoRet)
    /\ UNCHANGED exceptFPlot

FPlotSetXRange(minX, maxX) ==
    /\ fplot' = FunctionPlot_setXRange(fplot, minX, maxX)
    /\ rendered' = <<>>
    /\ Called(MaxFunctionOps, <<"setXRange", minX, maxX>>, NoRet)
    /\ UNCHANGED exceptFPlot

\* void FunctionPlot::setFunction(MathFunction func)
FunctionPlot_setFunction(fp, func) == [fp EXCEPT !.function = func]

FPlotSetFunction(func) ==
    /\ fplot' = FunctionPlot_setFunction(fplot, func)
    /\ rendered' = <<>>
    /\ Called(MaxFunctionOps, <<"setFunction", func>>, NoRet)
    /\ UNCHANGED exceptFPlot

(***************************************************************************)
(* TextBox (src/src/devices/led_screen/TextBox.cpp).  A String is a        *)
(* sequence of characters; `rendered' after a draw is the sequence of      *)
(* the lines passed to screen->print.                                      *)
(***************************************************************************)

Space == " "

\* String::substring(left, right) of the Arduino core: the characters at the
\* 0-based positions left..right-1, the two ends swapped when out of order
\* and the right end cut at the length
substring(s, left, right) ==
    LET l == Min(left, right)
        r == Max(left, right)
    IN IF l >= Len(s) THEN <<>> ELSE SubSeq(s, l + 1, Min(r, Len(s)))

\* String::substring(from): from position `from' to the end
substringFrom(s, from) == substring(s, from, Len(s))

\* String::lastIndexOf(ch, fromIndex) of the Arduino core: the last 0-based
\* position at or before fromIndex that holds ch; -1 when there is none or
\* when fromIndex is not a position of the string
lastIndexOf(s, ch, fromIndex) ==
    IF fromIndex >= Len(s) THEN -1
    ELSE LET found == {i \in 0..fromIndex : s[i + 1] = ch}
         IN IF found = {} THEN -1 ELSE CHOOSE i \in found : \A j \in found : j <= i

\* length() <= maxChars, compared as unsigned: a negative maxChars converts
\* to a value above every length
fitsLine(s, maxChars) == maxChars < 0 \/ Len(s) <= maxChars

\* TextBox::TextBox(x, y, width, height, text) at the origin
TextBox(width, height, text) ==
    [x |-> 0, y |-> 0, width |-> width, height |-> height,
     visible |-> TRUE, animate |-> FALSE,
     text |-> text, textSize |-> 1, wordWrap |-> TRUE, animationFrame |-> 0]

\* the body of the word-wrap loop of TextBox::draw: the line that is printed
\* and the text that remains
breakLine(remainingText, maxChars) ==
    IF fitsLine(remainingText, maxChars)
    THEN [line |-> remainingText, remainingText |-> <<>>]
    ELSE LET spacePos == lastIndexOf(remainingText, Space, maxChars)
         IN IF spacePos > 0 /\ spacePos < maxChars
            THEN [line |-> substring(remainingText, 0, spacePos),
                  remainingText |-> substringFrom(remainingText, spacePos + 1)]
            ELSE [line |-> substring(remainingText, 0, maxChars),
                  remainingText |-> substringFrom(remainingText, maxChars)]

RECURSIVE wrapLines(_, _, _)
\* the word-wrap loop of TextBox::draw from the line at currentY on: the
\* lines printed
wrapLines(tb, remainingText, currentY) ==
    LET charWidth  == 6 * tb.textSize
        charHeight == 8 * tb.textSize
        padding    == 2
        maxWidth   == tb.width - 2 * padding
        maxChars   == CDiv(maxWidth, charWidth)
    IN IF Len(remainingText) > 0 /\ currentY + charHeight <= tb.y + tb.height - padding
       THEN LET b == breakLine(remainingText, maxChars)
            IN <<b.line>> \o wrapLines(tb, b.remainingText, currentY + charHeight)
       ELSE <<>>

\* the branch of TextBox::draw without word wrap: one line, cut at maxChars
singleLine(tb, displayString) ==
    LET maxChars == CDiv(tb.width - 2 * 2, 6 * tb.textSize)
    IN <<IF fitsLine(displayString, maxChars) THEN displayString
         ELSE substring(displayString, 0, maxChars)>>

\* void TextBox::draw(LedScreen128_64* screen), screen not null: the fields
\* after the call and the lines printed
TextBox_draw(tb) ==
    IF ~tb.visible THEN [textBox |-> tb, rendered |-> <<>>]
    ELSE LET animating     == tb.animate /\ tb.animationFrame < Len(tb.text)
             displayString == IF animating
                              THEN substring(tb.text, 0, tb.animationFrame)
                              ELSE tb.text
             after         == IF animating
                              THEN [tb EXCEPT !.animationFrame = tb.animationFrame + 1]
                              ELSE tb
         IN [textBox  |-> after,
             rendered |-> IF tb.wordWrap
                          THEN wrapLines(tb, displayString, tb.y + 2)
                          ELSE singleLine(tb, displayString)]

\* void TextBox::setText(const String& text)
setText(tb, text) == [tb EXCEPT !.text = text, !.animationFrame = 0]

\* void TextBox::setWordWrap(bool wrap)
setWordWrap(tb, wrap) == [tb EXCEPT !.wordWrap = wrap]

InitText(width, height, text) == textBox = TextBox(width, height, text)

TextDraw ==
    /\ \E r \in {TextBox_draw(textBox)} :
          /\ textBox' = r.textBox
          /\ rendered' = r.rendered
    /\ Called(MaxTextOps, <<"TextBox::draw">>, NoRet)
    /\ UNCHANGED exceptText

TextSetAnimate(animate) ==
    /\ textBox' = setAnimate(textBox, animate)
    /\ rendered' = <<>>
    /\ Called(MaxTextOps, <<"setAnimate", animate>>, NoRet)
    /\ UNCHANGED exceptText

SetText(text) ==
    /\ textBox' = setText(textBox, text)
    /\ rendered' = <<>>
    /\ Called(MaxTextOps, <<"setText", text>>, NoRet)
    /\ UNCHANGED exceptText

SetWordWrap(wrap) ==
    /\ textBox' = setWordWrap(textBox, wrap)
    /\ rendered' = <<>>
    /\ Called(MaxTextOps, <<"setWordWrap", wrap>>, NoRet)
    /\ UNCHANGED exceptText

(***************************************************************************)
(* Bitmap (src/unnamed/part_003).  A buffer is a uint8_t[] allocation,     *)
(* named by a number: 1..NumCallerBuffers are allocated by the caller      *)
(* before it constructs the Bitmap, the next MaxGenerated ones are the     *)
(* allocations the Bitmap makes.  heap[b] records who must release buffer  *)
(* b ("caller", or "bitmap" once the Bitmap allocated it or was handed it  *)
(* with takeOwnership), whether it is allocated and not yet deleted, and   *)
(* how many times delete[] was applied to it.                              *)
(***************************************************************************)

Buffers == 1..(NumCallerBuffers + MaxGenerated)

\* the buffers the caller allocated
CallerBuffers == 1..NumCallerBuffers

\* the heap before the Bitmap is constructed
InitialHeap ==
    [b \in Buffers |->
        [owner     |-> IF b \in CallerBuffers THEN "caller" ELSE "none",
         allocated |-> b \in CallerBuffers,
         live      |-> b \in CallerBuffers,
         deletes   |-> 0,
         content   |-> IF b \in CallerBuffers THEN "caller data" ELSE "none"]]

\* delete[] b
deleteArray(h, b) ==
    [h EXCEPT ![b].live = FALSE, ![b].deletes = h[b].deletes + 1]

\* the buffers new uint8_t[] can return: any that is not allocated yet
Unallocated(h) == {b \in Buffers : ~h[b].allocated}

\* new uint8_t[bytesNeeded] returning buffer b, filled with `content'
newArray(h, b, content) ==
    [h EXCEPT ![b] = [owner |-> "bitmap", allocated |-> TRUE, live |-> TRUE,
                      deletes |-> 0, content |-> content]]

\* Bitmap::Bitmap(x, y, width, height, bitmapData) at the origin, with the
\* default bitmapData = nullptr
Bitmap(width, height) ==
    [x |-> 0, y |-> 0, width |-> width, height |-> height, visible |-> TRUE,
     bitmapData |-> NULL, ownsData |-> FALSE, inverted |-> FALSE, destroyed |-> FALSE]

\* void Bitmap::freeBitmapData(): the fields and the heap after the call
freeBitmapData(bm, h) ==
    IF bm.ownsData /\ bm.bitmapData # NULL
    THEN [bitmap |-> [bm EXCEPT !.bitmapData = NULL, !.ownsData = FALSE],
          heap   |-> deleteArray(h, bm.bitmapData)]
    ELSE [bitmap |-> bm, heap |-> h]

\* void Bitmap::setBitmapData(const uint8_t* data, bool takeOwnership): the
\* fields and the heap after the call
setBitmapData(bm, h, data, takeOwnership) ==
    LET freed == IF bm.ownsData /\ bm.bitmapData # NULL
                 THEN deleteArray(h, bm.bitmapData) ELSE h
    IN [bitmap |-> [bm EXCEPT !.bitmapData = data, !.ownsData = takeOwnership],
        heap   |-> IF data # NULL /\ takeOwnership
                   THEN [freed EXCEPT ![data].owner = "bitmap"] ELSE freed]

\* the part the three create functions share: freeBitmapData(), then a new
\* buffer b with the generated content becomes the owned data
createOwned(bm, h, b, content) ==
    LET f == freeBitmapData(bm, h)
    IN [bitmap |-> [f.bitmap EXCEPT !.bitmapData = b, !.ownsData = TRUE],
        heap   |-> newArray(f.heap, b, content)]

\* void Bitmap::createFromPattern(bool pattern[], int size), new returning b
createFromPattern(bm, h, size, b) ==
    IF size <= 0 THEN freeBitmapData(bm, h) ELSE createOwned(bm, h, b, "pattern")

\* void Bitmap::createCheckerboard(int squareSize), new returning b
createCheckerboard(bm, h, squareSize, b) == createOwned(bm, h, b, "checkerboard")

\* void Bitmap::createGradient(bool horizontal), new returning b
createGradient(bm, h, horizontal, b) == createOwned(bm, h, b, "gradient")

\* Bitmap::~Bitmap()
destroyBitmap(bm, h) ==
    LET f == freeBitmapData(bm, h)
    IN [bitmap |-> [f.bitmap EXCEPT !.destroyed = TRUE], heap |-> f.heap]

\* what a buffer can hold
Contents == {"caller data", "pattern", "checkerboard", "gradient"}

\* void Bitmap::draw(LedScreen128_64* screen), screen not null: the pictures
\* drawBitmap can show. Reading a deleted buffer is undefined: any content.
Bitmap_draw(bm, h) ==
    IF ~bm.visible \/ bm.bitmapData = NULL THEN {<<>>}
    ELSE IF h[bm.bitmapData].live THEN {<<h[bm.bitmapData].content>>}
    ELSE {<<c>> : c \in Contents}

InitBitmap(width, height) ==
    /\ bitmap = Bitmap(width, height)
    /\ heap = InitialHeap

\* the buffers the caller may pass to setBitmapData: the null pointer, the
\* caller's own buffers and the pointer getBitmapData() returns, as long as
\* they have not been deleted
Suppliable ==
    {NULL} \cup {b \in Buffers : /\ heap[b].live
                                 /\ b \in CallerBuffers \/ b = bitmap.bitmapData}

\* one call on the Bitmap that returns nothing and leaves it as r.bitmap with
\* the heap r.heap
BitmapCall(call, r) ==
    /\ ~bitmap.destroyed
    /\ bitmap' = r.bitmap
    /\ heap' = r.heap
    /\ rendered' = <<>>
    /\ Called(MaxBitmapOps, call, NoRet)
    /\ UNCHANGED exceptBitmap

SetBitmapData(data, takeOwnership) ==
    /\ data \in Suppliable
    /\ BitmapCall(<<"setBitmapData", data, takeOwnership>>,
                  setBitmapData(bitmap, heap, data, takeOwnership))

CreateFromPattern(size) ==
    \E b \in IF size <= 0 THEN {NULL} ELSE Unallocated(heap) :
        BitmapCall(<<"createFromPattern", size>>,
                   createFromPattern(bitmap, heap, size, b))

CreateCheckerboard(squareSize) ==
    \E b \in Unallocated(heap) :
        BitmapCall(<<"createCheckerboard", squareSize>>,
                   createCheckerboard(bitmap, heap, squareSize, b))

CreateGradient(horizontal) ==
    \E b \in Unallocated(heap) :
        BitmapCall(<<"createGradient", horizontal>>,
                   createGradient(bitmap, heap, horizontal, b))

FreeBitmapData ==
    BitmapCall(<<"freeBitmapData">>, freeBitmapData(bitmap, heap))

DestroyBitmap ==
    BitmapCall(<<"~Bitmap">>, destroyBitmap(bitmap, heap))

BitmapDraw ==
    /\ ~bitmap.destroyed
    /\ rendered' \in Bitmap_draw(bitmap, heap)
    /\ Called(MaxBitmapOps, <<"Bitmap::draw">>, NoRet)
    /\ UNCHANGED <<exceptBitmap, bitmap, heap>>

(***************************************************************************)
(* Geometry (src/unnamed/part_001) and the size setters of GraphicsAsset   *)
(* (src/unnamed/part_002).                                                 *)
(***************************************************************************)

\* the conversion of an int to int16_t: the value modulo 2^16
ToInt16(n) == ((n + 32768) % 65536) - 32768

\* Geometry::Geometry(x, y, width, height, shape) at the origin, with the
\* default shape
Geometry(width, height) ==
    [x |-> 0, y |-> 0, width |-> width, height |-> height, visible |-> TRUE,
     shape |-> "RECTANGLE", filled |-> FALSE,
     x1 |-> 0, y1 |-> 0, x2 |-> 0, y2 |-> 0, radius |-> 0]

\* void GraphicsAsset::setHeight(int16_t height)
setHeight(w, height) == [w EXCEPT !.height = height]

\* void GraphicsAsset::setSize(int16_t width, int16_t height)
setSize(w, width, height) == [w EXCEPT !.width = width, !.height = height]

\* void Geometry::setAsRectangle(x, y, w, h, filled)
setAsRectangle(g, x, y, w, h, filled) ==
    [g EXCEPT !.x = x, !.y = y, !.width = w, !.height = h,
              !.filled = filled, !.shape = "RECTANGLE"]

\* void Geometry::setAsRoundedRectangle(x, y, w, h, radius, filled)
setAsRoundedRectangle(g, x, y, w, h, radius, filled) ==
    [g EXCEPT !.x = x, !.y = y, !.width = w, !.height = h, !.radius = radius,
              !.filled = filled, !.shape = "ROUNDED_RECTANGLE"]

\* void Geometry::setAsCircle(centerX, centerY, radius, filled)
setAsCircle(g, centerX, centerY, radius, filled) ==
    [g EXCEPT !.x = centerX, !.y = centerY, !.radius = radius,
              !.width = ToInt16(radius * 2), !.height = ToInt16(radius * 2),
              !.filled = filled, !.shape = "CIRCLE"]

\* void Geometry::setAsLine(x0, y0, x1, y1)
setAsLine(g, x0, y0, x1, y1) ==
    [g EXCEPT !.x = x0, !.y = y0, !.x1 = x1, !.y1 = y1,
              !.width = ToInt16(Abs(x1 - x0)), !.height = ToInt16(Abs(y1 - y0)),
              !.filled = FALSE, !.shape = "LINE"]

\* void Geometry::setAsTriangle(x0, y0, x1, y1, x2, y2, filled)
setAsTriangle(g, x0, y0, x1, y1, x2, y2, filled) ==
    LET minX == Min(x0, Min(x1, x2))
        maxX == Max(x0, Max(x1, x2))
        minY == Min(y0, Min(y1, y2))
        maxY == Max(y0, Max(y1, y2))
    IN [g EXCEPT !.x = x0, !.y = y0, !.x1 = x1, !.y1 = y1, !.x2 = x2, !.y2 = y2,
                 !.width = ToInt16(maxX - minX), !.height = ToInt16(maxY - minY),
                 !.filled = filled, !.shape = "TRIANGLE"]

InitGeometry(width, height) == geometry = Geometry(width, height)

\* one call on the Geometry that returns nothing and leaves it as g
GeometryCall(call, g) ==
    /\ geometry' = g
    /\ rendered' = <<>>
    /\ Called(MaxGeometryOps, call, NoRet)
    /\ UNCHANGED exceptGeometry

GeometrySetWidth(width) ==
    GeometryCall(<<"setWidth", width>>, setWidth(geometry, width))

GeometrySetHeight(height) ==
    GeometryCall(<<"setHeight", height>>, setHeight(geometry, height))

GeometrySetSize(width, height) ==
    GeometryCall(<<"setSize", width, height>>, setSize(geometry, width, height))

SetAsRectangle(x, y, w, h, filled) ==
    GeometryCall(<<"setAsRectangle", x, y, w, h, filled>>,
                 setAsRectangle(geometry, x, y, w, h, filled))

SetAsRoundedRectangle(x, y, w, h, radius, filled) ==
    GeometryCall(<<"setAsRoundedRectangle", x, y, w, h, radius, filled>>,
                 setAsRoundedRectangle(geometry, x, y, w, h, radius, filled))

SetAsCircle(centerX, centerY, radius, filled) ==
    GeometryCall(<<"setAsCircle", centerX, centerY, radius, filled>>,
                 setAsCircle(geometry, centerX, centerY, radius, filled))

SetAsLine(x0, y0, x1, y1) ==
    GeometryCall(<<"setAsLine", x0, y0, x1, y1>>, setAsLine(geometry, x0, y0, x1, y1))

SetAsTriangle(x0, y0, x1, y1, x2, y2, filled) ==
    GeometryCall(<<"setAsTriangle", x0, y0, x1, y1, x2, y2, filled>>,
                 setAsTriangle(geometry, x0, y0, x1, y1, x2, y2, filled))

(***************************************************************************)
(* DeviceRegistry (src/src/main.cpp) and the action queue of Device        *)
(* (src/src/devices/core/Device.cpp).                                      *)
(***************************************************************************)

\* the Device objects
DeviceIds == 1..NumDevices

\* Device::getAddress() of the device d: every device has its own address
getAddress(d) == 63 + d

\* DeviceAction(addr, type, d, len); hasData stands for d != nullptr && len > 0
DeviceAction(addr, type, hasData) ==
    [device_address |-> addr, action_type |-> type, hasData |-> hasData]

\* DeviceRegistry::DeviceRegistry()
DeviceRegistry == [registered_devices |-> <<>>, action_in_progress |-> FALSE]

\* bool DeviceRegistry::isDeviceRegistered(Device* device) const
isDeviceRegistered(reg, device) ==
    device # NULL /\ device \in Range(reg.registered_devices)

\* bool DeviceRegistry::registerDevice(Device* device)
registerDevice(reg, device) ==
    IF device = NULL \/ isDeviceRegistered(reg, device)
    THEN [registry |-> reg, ret |-> FALSE]
    ELSE [registry |-> [reg EXCEPT !.registered_devices = Append(@, device)],
          ret      |-> TRUE]

\* bool DeviceRegistry::unregisterDevice(Device* device)
unregisterDevice(reg, device) ==
    IF device = NULL \/ device \notin Range(reg.registered_devices)
    THEN [registry |-> reg, ret |-> FALSE]
    ELSE [registry |-> [reg EXCEPT !.registered_devices =
                            SelectSeq(@, LAMBDA d : d # device)],
          ret      |-> TRUE]

\* Device* DeviceRegistry::getDeviceByAddress(uint8_t address) const
getDeviceByAddress(reg, address) ==
    LET found == {i \in 1..Len(reg.registered_devices) :
                      getAddress(reg.registered_devices[i]) = address}
    IN IF found = {} THEN NULL
       ELSE reg.registered_devices[CHOOSE i \in found : \A j \in found : i <= j]

\* void Device::addActionToQueue(action_type, data, length) of the device d
addActionToQueue(queue, d, action_type, hasData) ==
    Append(queue, DeviceAction(getAddress(d), action_type, hasData))

\* the action is removed only when its device is found
performNextActionKeepUnknown(reg, queue, io) ==
    IF queue = <<>> \/ reg.action_in_progress
    THEN [registry |-> reg, queue |-> queue, ret |-> FALSE]
    ELSE LET action == Head(queue)
             device == getDeviceByAddress(reg, action.device_address)
         IN IF device = NULL
            THEN [registry |-> reg, queue |-> queue, ret |-> FALSE]
            ELSE [registry |-> reg, queue |-> Tail(queue),
                  ret |-> action.action_type \in {0, 1} /\ action.hasData /\ io]

\* bool DeviceRegistry::performNextAction(): the registry, the queue and the
\* return value after the call; io is what Device::receive or Device::send
\* returns if it is called
performNextAction(reg, queue, io) ==
    IF queue = <<>> \/ reg.action_in_progress
    THEN [registry |-> reg, queue |-> queue, ret |-> FALSE]
    ELSE LET action == Head(queue)
             device == getDeviceByAddress(reg, action.device_address)
             done   == [reg EXCEPT !.action_in_progress = FALSE]
         IN IF device = NULL
            THEN [registry |-> done, queue |-> Tail(queue), ret |-> FALSE]
            ELSE [registry |-> done, queue |-> Tail(queue),
                  ret |-> action.action_type \in {0, 1} /\ action.hasData /\ io]

\* bool DeviceRegistry::skipNextAction()
skipNextAction(queue) ==
    IF queue = <<>> THEN [queue |-> queue, ret |-> FALSE]
    ELSE [queue |-> Tail(queue), ret |-> TRUE]

InitRegistry ==
    /\ registry = DeviceRegistry
    /\ action_queue = <<>>

\* the variables an operation of the registry or of a device does not touch
exceptRegistry ==
    <<screenVars, plot, added, supplied, table, fplot, textBox, bitmap, heap,
      geometry, rendered>>

RegisterDevice(device) ==
    /\ \E r \in {registerDevice(registry, device)} :
          /\ registry' = r.registry
          /\ Called(MaxRegistryOps, <<"registerDevice", device>>, r.ret)
    /\ UNCHANGED <<exceptRegistry, action_queue>>

UnregisterDevice(device) ==
    /\ \E r \in {unregisterDevice(registry, device)} :
          /\ registry' = r.registry
          /\ Called(MaxRegistryOps, <<"unregisterDevice", device>>, r.ret)
    /\ UNCHANGED <<exceptRegistry, action_queue>>

AddActionToQueue(d, action_type, hasData) ==
    /\ action_queue' = addActionToQueue(action_queue, d, action_type, hasData)
    /\ Called(MaxRegistryOps, <<"addActionToQueue", d, action_type, hasData>>, NoRet)
    /\ UNCHANGED <<exceptRegistry, registry>>

PerformNextAction ==
    /\ \E io \in BOOLEAN :
       \E r \in {performNextAction(registry, action_queue, io)} :
          /\ registry' = r.registry
          /\ action_queue' = r.queue
          /\ Called(MaxRegistryOps, <<"performNextAction">>, r.ret)
    /\ UNCHANGED exceptRegistry

SkipNextAction ==
    /\ \E r \in {skipNextAction(action_queue)} :
          /\ action_queue' = r.queue
          /\ Called(MaxRegistryOps, <<"skipNextAction">>, r.ret)
    /\ UNCHANGED <<exceptRegistry, registry>>

(***************************************************************************)
(* Specifications.                                                         *)
(***************************************************************************)

\* the widgets as constructed, for the specifications that do not use them
IdlePlot == InitPlot(1)
IdleTable == InitTable(100, 64, 1, 1)
IdleFPlot == InitFPlot(64, 32, NoFunction)
IdleText == InitText(60, 10, <<>>)
IdleBitmap == InitBitmap(8, 8)
IdleGeometry == InitGeometry(10, 10)
IdleRegistry == InitRegistry
Idle == IdlePlot /\ IdleTable /\ IdleFPlot /\ IdleText /\ IdleBitmap /\ IdleGeometry /\ IdleRegistry

InitScreen == InitScreenVars /\ Idle /\ rendered = <<>> /\ InitCaller

NextScreen ==
    \/ \E ok \in BOOLEAN : Begin(ok)
    \/ \E a \in AssetIds \cup {NULL} : AddAsset(a)
    \/ \E a \in AssetIds : FillAssets(a)
    \/ \E a \in AssetIds \cup {NULL} : RemoveAsset(a)
    \/ ClearAssets
    \/ DrawAssets
    \/ \E a \in AssetIds, z \in ZValues : SetZIndex(a, z)
    \/ \E a \in AssetIds, v \in BOOLEAN : SetVisible(a, v)

SpecScreen == InitScreen /\ [][NextScreen]_vars


\* a DataPlot's buffer: addPoint, clearData and getPoint on a plot of any
\* capacity 1..MaxCapacity
InitData ==
    /\ InitScreenVars
    /\ \E capacity \in 1..MaxCapacity : InitPlot(capacity)
    /\ IdleTable /\ IdleFPlot /\ IdleText /\ IdleBitmap /\ IdleGeometry /\ IdleRegistry
    /\ rendered = <<>>
    /\ InitCaller

NextData ==
    \/ \E pt \in PlotPoints : AddPoint(pt[1], pt[2])
    \/ ClearData
    \/ \E index \in -1..MaxCapacity : GetPoint(index)

SpecData == InitData /\ [][NextData]_vars

\* the cells of a Table 24 pixels wide (a single column then holds 3
\* characters) and tall enough for every row
InitCells ==
    /\ InitScreenVars
    /\ IdlePlot /\ IdleFPlot /\ IdleText /\ IdleBitmap /\ IdleGeometry /\ IdleRegistry
    /\ \E rows \in 1..MaxRows, cols \in 1..MaxCols : InitTable(24, 64, rows, cols)
    /\ rendered = <<>>
    /\ InitCaller

NextCells ==
    \/ \E row \in -1..MaxRows, col \in -1..MaxCols, text \in CellTexts :
            SetCell(row, col, text)
    \/ \E row \in -1..MaxRows, col \in -1..MaxCols : GetCell(row, col)
    \/ \E row \in -1..MaxRows, col \in -1..MaxCols : ClearCell(row, col)
    \/ TableDraw

SpecCells == InitCells /\ [][NextCells]_vars

\* the box widths of the Tables whose column widths are computed
TableWidths == 0..MaxWidth \cup {100, 101}

\* the column widths of a Table of any width in TableWidths
InitColumns ==
    /\ InitScreenVars
    /\ IdlePlot /\ IdleFPlot /\ IdleText /\ IdleBitmap /\ IdleGeometry /\ IdleRegistry
    /\ \E width \in TableWidths, rows \in 1..MaxRows, cols \in 1..MaxCols :
            InitTable(width, 64, rows, cols)
    /\ rendered = <<>>
    /\ InitCaller

NextColumns ==
    \/ \E width \in TableWidths : TableSetWidth(width)
    \/ \E autoFit \in BOOLEAN : SetAutoFitColumns(autoFit)
    \/ \E col \in -1..MaxCols, width \in {0, 7} : SetColumnWidth(col, width)
    \/ TableDraw

SpecColumns == InitColumns /\ [][NextColumns]_vars

\* the points of the series that are auto-scaled: small coordinates and
\* 3000000 (a millisecond timestamp after 50 minutes)
ScalePoints ==
    {<<FromInt[5], FromInt[5]>>, <<FromInt[5], FromInt[0]>>,
     <<FromInt[0], FromInt[5]>>, <<FromInt[3000000], FromInt[5]>>}

\* a DataPlot that is filled and drawn, with and without animation
InitPlotting ==
    /\ InitScreenVars
    /\ \E capacity \in 1..MaxCapacity : InitPlot(capacity)
    /\ IdleTable /\ IdleFPlot /\ IdleText /\ IdleBitmap /\ IdleGeometry /\ IdleRegistry
    /\ rendered = <<>>
    /\ InitCaller

NextPlotting ==
    \/ \E pt \in ScalePoints : AddPoint(pt[1], pt[2])
    \/ ClearData
    \/ PlotDraw
    \/ \E animate \in BOOLEAN : PlotSetAnimate(animate)

SpecPlotting == InitPlotting /\ [][NextPlotting]_vars

\* the box widths a FunctionPlot is constructed with: the default 64 and
\* two small ones, with an even and an odd number of sample columns
FunctionWidths == {64, 8, 9}

\* the X domains the caller sets
XRanges == {<<FromInt[-10], FromInt[10]>>, <<FromInt[-1], FromInt[3]>>,
            <<FromInt[1], FromInt[5]>>}

\* a FunctionPlot of 1/x or x that is drawn, with and without animation
InitFunction ==
    /\ InitScreenVars
    /\ IdlePlot /\ IdleTable /\ IdleText /\ IdleBitmap /\ IdleGeometry /\ IdleRegistry
    /\ \E width \in FunctionWidths, func \in MathFunctions : InitFPlot(width, 32, func)
    /\ rendered = <<>>
    /\ InitCaller

NextFunction ==
    \/ FPlotDraw
    \/ \E animate \in BOOLEAN : FPlotSetAnimate(animate)
    \/ \E range \in XRanges : FPlotSetXRange(range[1], range[2])
    \/ \E func \in MathFunctions : FPlotSetFunction(func)

SpecFunction == InitFunction /\ [][NextFunction]_vars

\* the texts of the TextBox: two words and one word
Texts == {<<"a", "b", Space, "c", "d">>, <<"a", "b", "c">>}

\* the box widths of the TextBox: 4 characters and 9 characters to the line
TextWidths == {28, 60}

\* the box heights of the TextBox: room for one line and for two
TextHeights == {12, 20}

\* a TextBox that is drawn, with and without animation
InitTyping ==
    /\ InitScreenVars
    /\ IdlePlot /\ IdleTable /\ IdleFPlot /\ IdleBitmap /\ IdleGeometry /\ IdleRegistry
    /\ \E width \in TextWidths, height \in TextHeights, text \in Texts :
            InitText(width, height, text)
    /\ rendered = <<>>
    /\ InitCaller

NextText ==
    \/ TextDraw
    \/ \E animate \in BOOLEAN : TextSetAnimate(animate)
    \/ \E text \in Texts : SetText(text)
    \/ \E wrap \in BOOLEAN : SetWordWrap(wrap)

SpecText == InitTyping /\ [][NextText]_vars

\* the point the series that is revealed is made of
RevealPoints == {<<FromInt[5], FromInt[5]>>}

\* the box widths of the FunctionPlot that is revealed: content rectangles
\* of 1 and of 2 columns
RevealWidths == {5, 6}

\* a DataPlot and a FunctionPlot that are filled and drawn, with and without
\* animation
InitReveal ==
    /\ InitScreenVars
    /\ IdleTable /\ IdleText /\ IdleBitmap /\ IdleGeometry /\ IdleRegistry
    /\ \E capacity \in 1..MaxRevealCapacity : InitPlot(capacity)
    /\ \E width \in RevealWidths, func \in MathFunctions : InitFPlot(width, 32, func)
    /\ rendered = <<>>
    /\ InitCaller

NextReveal ==
    \/ \E pt \in RevealPoints : AddPoint(pt[1], pt[2])
    \/ ClearData
    \/ PlotDraw
    \/ \E animate \in BOOLEAN : PlotSetAnimate(animate)
    \/ FPlotDraw
    \/ \E animate \in BOOLEAN : FPlotSetAnimate(animate)

SpecReveal == InitReveal /\ [][NextReveal]_vars

\* a Table whose cells are set and which is resized, to every size from 1x1
\* to MaxRows x MaxCols and to sizes that are refused
InitResize ==
    /\ InitScreenVars
    /\ IdlePlot /\ IdleFPlot /\ IdleText /\ IdleBitmap /\ IdleGeometry /\ IdleRegistry
    /\ \E rows \in 1..MaxRows, cols \in 1..MaxCols : InitTable(24, 64, rows, cols)
    /\ rendered = <<>>
    /\ InitCaller

NextResize ==
    \/ \E row \in 0..(MaxRows - 1), col \in 0..(MaxCols - 1), text \in CellTexts :
            SetCell(row, col, text)
    \/ \E newRows \in -1..MaxRows, newCols \in -1..MaxCols : Resize(newRows, newCols)
    \/ \E row \in 0..(MaxRows - 1), col \in 0..(MaxCols - 1) : GetCell(row, col)

SpecResize == InitResize /\ [][NextResize]_vars

\* a Bitmap of 8x8 pixels, the caller holding NumCallerBuffers buffers
InitBitmapSpec ==
    /\ InitScreenVars /\ IdlePlot /\ IdleTable /\ IdleFPlot /\ IdleText /\ IdleGeometry /\ IdleRegistry
    /\ InitBitmap(8, 8)
    /\ rendered = <<>>
    /\ InitCaller

NextBitmap ==
    \/ \E data \in Buffers \cup {NULL}, takeOwnership \in BOOLEAN :
           SetBitmapData(data, takeOwnership)
    \/ \E size \in {0, 4} : CreateFromPattern(size)
    \/ \E squareSize \in {0, 4} : CreateCheckerboard(squareSize)
    \/ \E horizontal \in BOOLEAN : CreateGradient(horizontal)
    \/ FreeBitmapData
    \/ DestroyBitmap
    \/ BitmapDraw

SpecBitmap == InitBitmapSpec /\ [][NextBitmap]_vars

\* sizes and radii the caller passes, and the coordinates of points
GeometrySizes == {-1, 0, 5}
GeometryRadii == {-1, 0, 5, 20000}
GeometryXs == {-32768, 0, 32767}
GeometryYs == {0, 4}

\* a Geometry of the default size whose size and shape are set
InitGeometrySpec ==
    /\ InitScreenVars /\ IdlePlot /\ IdleTable /\ IdleFPlot /\ IdleText /\ IdleBitmap
    /\ InitGeometry(10, 10) /\ IdleRegistry
    /\ rendered = <<>>
    /\ InitCaller

NextGeometry ==
    \/ \E width \in GeometrySizes : GeometrySetWidth(width)
    \/ \E height \in GeometrySizes : GeometrySetHeight(height)
    \/ \E width \in GeometrySizes, height \in GeometrySizes : GeometrySetSize(width, height)
    \/ \E w \in GeometrySizes, h \in GeometrySizes, filled \in BOOLEAN :
           SetAsRectangle(0, 0, w, h, filled)
    \/ \E w \in GeometrySizes, h \in GeometrySizes, filled \in BOOLEAN :
           SetAsRoundedRectangle(0, 0, w, h, 2, filled)
    \/ \E radius \in GeometryRadii, filled \in BOOLEAN : SetAsCircle(8, 8, radius, filled)
    \/ \E x0 \in GeometryXs, x1 \in GeometryXs, y1 \in GeometryYs :
           SetAsLine(x0, 0, x1, y1)
    \/ \E x0 \in GeometryXs, x1 \in GeometryXs, x2 \in GeometryXs,
          y2 \in GeometryYs, filled \in BOOLEAN :
           SetAsTriangle(x0, 0, x1, 0, x2, y2, filled)

SpecGeometry == InitGeometrySpec /\ [][NextGeometry]_vars

\* the arrays the caller passes to setData: one element more than the largest
\* capacity
SeriesData == [i \in 1..(MaxCapacity + 1) |-> FromInt[i]]

\* a DataPlot that is filled point by point and from arrays, and cleared
InitSeries ==
    /\ InitScreenVars
    /\ \E capacity \in 1..MaxCapacity : InitPlot(capacity)
    /\ IdleTable /\ IdleFPlot /\ IdleText /\ IdleBitmap /\ IdleGeometry /\ IdleRegistry
    /\ rendered = <<>>
    /\ InitCaller

NextSeries ==
    \/ AddPoint(FromInt[0], FromInt[0])
    \/ \E size \in -1..(MaxCapacity + 1) : SetData(SeriesData, SeriesData, size)
    \/ ClearData

SpecSeries == InitSeries /\ [][NextSeries]_vars

\* devices that are registered and unregistered, and whose actions are queued,
\* performed and skipped
InitDevices ==
    /\ InitScreenVars
    /\ IdlePlot /\ IdleTable /\ IdleFPlot /\ IdleText /\ IdleBitmap /\ IdleGeometry
    /\ InitRegistry
    /\ rendered = <<>>
    /\ InitCaller

NextDevices ==
    \/ \E device \in DeviceIds \cup {NULL} : RegisterDevice(device)
    \/ \E device \in DeviceIds : UnregisterDevice(device)
    \/ \E d \in DeviceIds, action_type \in 0..2, hasData \in BOOLEAN :
           AddActionToQueue(d, action_type, hasData)
    \/ PerformNextAction
    \/ SkipNextAction

SpecDevices == InitDevices /\ [][NextDevices]_vars

\* a DataPlot whose domain is set by the caller and by auto-scaling
DomainRanges == {<<FromInt[0], FromInt[10]>>, <<FromInt[0], FromInt[4]>>,
                 <<FromInt[5], FromInt[5]>>, <<FromInt[4], FromInt[0]>>}

\* the DataPlot holds the point (5, 5) when the calls begin
InitDomain ==
    /\ InitScreenVars
    /\ plot = addPoint(DataPlot(MaxDomainCapacity), FromInt[5], FromInt[5])
    /\ added = << <<FromInt[5], FromInt[5]>> >>
    /\ supplied = [x |-> NoDomain, y |-> NoDomain]
    /\ IdleTable /\ IdleFPlot /\ IdleText /\ IdleBitmap /\ IdleGeometry /\ IdleRegistry
    /\ rendered = <<>>
    /\ InitCaller

NextDomain ==
    \/ AddPoint(FromInt[0], FromInt[0])
    \/ PlotDraw
    \/ \E range \in DomainRanges : PlotSetXRange(range[1], range[2])
    \/ \E range \in DomainRanges : PlotSetYRange(range[1], range[2])
    \/ \E autoScale \in BOOLEAN : PlotSetAutoScale(autoScale)

SpecDomain == InitDomain /\ [][NextDomain]_vars

\* the domains the caller gives the labelled plot
LabelRanges == {<<FromInt[0], FromInt[100]>>, <<FromInt[-20], FromInt[31]>>,
                <<FromInt[-1], FromInt[1]>>}

\* a DataPlot holding the point (5, 5) whose axis labels are switched on and
\* whose domain, width and tick count are set before it is drawn
InitLabels ==
    /\ InitScreenVars
    /\ plot = addPoint(DataPlot(MaxDomainCapacity), FromInt[5], FromInt[5])
    /\ added = << <<FromInt[5], FromInt[5]>> >>
    /\ supplied = [x |-> NoDomain, y |-> NoDomain]
    /\ IdleTable /\ IdleFPlot /\ IdleText /\ IdleBitmap /\ IdleGeometry /\ IdleRegistry
    /\ rendered = <<>>
    /\ InitCaller

NextLabels ==
    \/ \E show \in BOOLEAN : PlotSetShowAxisLabels(show)
    \/ \E max \in {0, 3, 6} : PlotSetMaxTicks(max)
    \/ \E width \in {40, 64, 128} : PlotSetWidth(width)
    \/ \E range \in LabelRanges : PlotSetXRange(range[1], range[2])
    \/ PlotDraw

SpecLabels == InitLabels /\ [][NextLabels]_vars

(***************************************************************************)
(* Claims about the compositor (checked under SpecScreen).                 *)
(***************************************************************************)

\* C1: addAsset called while the collection holds MAX_SCREEN_ASSETS assets
\* returns false and leaves the collection (count and contents) unchanged, and
\* getAssetCount() never exceeds MAX_SCREEN_ASSETS.
C1_AddBeyondCapacityFails ==
    /\ [](getAssetCount <= MAX_SCREEN_ASSETS)
    /\ [][(/\ lastCall'[1] = "addAsset"
           /\ Len(assets) >= MAX_SCREEN_ASSETS)
          => (ret' = FALSE /\ assets' = assets)]_vars

\* a single addAsset of a real asset was refused on a full collection
C1_Witness ==
    /\ lastCall[1] = "addAsset"
    /\ lastCall[2] # NULL
    /\ ret = FALSE
    /\ getAssetCount = MAX_SCREEN_ASSETS

\* C2: in the state a drawAssets() call leaves, the draw() calls it issued are
\* in ascending z-index order: an asset with the lower z-index is drawn before
\* every asset with a higher one, whatever the insertion order was; on an
\* initialized display every registered visible asset is among them.
C2_DrawnInZOrder ==
    lastCall = <<"drawAssets">> =>
        /\ \A i, j \in 1..Len(drawLog) :
                zIndex[drawLog[i]] < zIndex[drawLog[j]] => i < j
        /\ display_initialized =>
                \A a \in Range(assets) : visible[a] => a \in Range(drawLog)

\* a draw pass that drew two assets of different z-index
C2_Witness ==
    /\ lastCall = <<"drawAssets">>
    /\ \E i, j \in 1..Len(drawLog) : zIndex[drawLog[i]] < zIndex[drawLog[j]]

\* C9: no asset reference appears more than once in the collection.
C9_NoDuplicateReference == \A a \in AssetIds : Count(assets, a) <= 1

\* C10: removeAsset(a) of a registered asset returns true and removes exactly
\* the first occurrence of a, keeping the order of all other entries;
\* removeAsset of an unregistered or null asset returns false and leaves the
\* collection unchanged.
C10_RemoveFirstOccurrence ==
    [][lastCall'[1] = "removeAsset" =>
        LET a == lastCall'[2]
        IN IF a # NULL /\ a \in Range(assets)
           THEN /\ ret' = TRUE
                /\ Len(assets') = Len(assets) - 1
                /\ \E p \in 1..Len(assets) :
                      /\ assets[p] = a
                      /\ \A i \in 1..(p - 1) : assets[i] # a /\ assets'[i] = assets[i]
                      /\ \A i \in p..Len(assets') : assets'[i] = assets[i + 1]
           ELSE ret' = FALSE /\ assets' = assets]_vars

\* a removal succeeded on a collection that held the asset more than once
C10_Witness ==
    /\ lastCall[1] = "removeAsset"
    /\ ret = TRUE
    /\ lastCall[2] \in Range(assets)
    /\ Len(assets) >= 2

(***************************************************************************)
(* Claims about the DataPlot buffer (checked under SpecData).              *)
(***************************************************************************)

\* C3: after n addPoint calls since the construction or the last clearData,
\* a DataPlot of capacity C >= 1 holds exactly the most recent min(n, C)
\* points in arrival order: getDataSize() is min(n, C), getPoint(i) returns
\* the (n - min(n, C) + i)-th added point (counting from 0) for every
\* i < min(n, C) and false for every other index, so on overflow exactly the
\* oldest point is evicted.
C3_RollingBuffer ==
    LET n == Len(added)
        C == plot.dataCapacity
        k == Min(n, C)
    IN C >= 1 =>
        /\ getDataSize(plot) = k
        /\ \A i \in 0..(k - 1) : getPoint(plot, i) = <<TRUE, added[n - k + i + 1]>>
        /\ \A i \in {-1} \cup k..C : getPoint(plot, i) = <<FALSE>>

\* a plot of capacity 3 was given (0,0), (1,1), (2,2), (3,3) and holds
\* (1,1), (2,2), (3,3)
C3_Witness ==
    /\ plot.dataCapacity = 3
    /\ added = [i \in 1..4 |-> <<FromInt[i - 1], FromInt[i - 1]>>]
    /\ \A i \in 0..2 : getPoint(plot, i) = <<TRUE, <<FromInt[i + 1], FromInt[i + 1]>> >>
    /\ lastCall[1] = "addPoint"
(***************************************************************************)
(* Claims about the Table (checked under SpecCells and SpecColumns).       *)
(***************************************************************************)

\* C4: for every (row, col) inside the table, setCell(row, col, t) makes
\* getCell(row, col) return exactly t, and a later draw() or a setCell on
\* another cell changes what getCell returns for no cell it is not aimed at:
\* the text is cut only when drawn, never when stored.
C4_CellRoundTrip ==
    [][/\ (lastCall'[1] = "setCell" /\ getCellIndex(table, lastCall'[2], lastCall'[3]) >= 0)
            => getCell(table', lastCall'[2], lastCall'[3]) = lastCall'[4]
       /\ lastCall'[1] \in {"Table::draw", "setCell"}
            => \A row \in 0..(table.rows - 1), col \in 0..(table.cols - 1) :
                  (lastCall'[1] = "setCell" => <<row, col>> # <<lastCall'[2], lastCall'[3]>>)
                  => getCell(table', row, col) = getCell(table, row, col)]_vars

\* a draw() printed fewer characters for a cell than getCell returns for it
C4_Witness ==
    /\ lastCall = <<"Table::draw">>
    /\ \E i \in 1..Len(rendered) :
          Len(rendered[i][3]) < Len(getCell(table, rendered[i][1], rendered[i][2]))

\* calculateColumnWidths has just run on an auto-fit table: the constructor,
\* a draw() or setAutoFitColumns(true) was the last call
WidthsComputed ==
    /\ table.autoFitColumns
    /\ \/ lastCall = <<"new">>
       \/ lastCall = <<"Table::draw">> /\ table.visible
       \/ lastCall = <<"setAutoFitColumns", TRUE>>

RECURSIVE SumWidths(_, _)
\* colWidths[0] + ... + colWidths[n - 1]
SumWidths(t, n) == IF n = 0 THEN 0 ELSE SumWidths(t, n - 1) + t.colWidths[n - 1]

\* every column is floor((w - 2) / cols) wide, the last one wider by
\* (w - 2) mod cols, and the widths sum to w - 2
EvenSplit(t) ==
    /\ \A col \in 0..(t.cols - 1) :
          getColumnWidth(t, col) =
              ((t.width - 2) \div t.cols)
              + (IF col = t.cols - 1 THEN (t.width - 2) % t.cols ELSE 0)
    /\ SumWidths(t, t.cols) = t.width - 2

\* C5 as stated: for a Table with cols >= 1, box width w >= 0 and auto-fit
\* enabled, the computed column widths give every column floor((w-2)/cols)
\* pixels and the last column the remainder (w-2) mod cols more, so the
\* widths sum to w-2.
C5_EvenSplitFromZero ==
    (WidthsComputed /\ table.cols >= 1 /\ table.width >= 0) => EvenSplit(table)

\* C5 amended: the same for a box width w >= 2 (w=100, cols=2 gives (49,49);
\* w=101, cols=2 gives (49,50)).
C5_EvenSplitFromTwo ==
    (WidthsComputed /\ table.cols >= 1 /\ table.width >= 2) => EvenSplit(table)

\* a draw() recomputed the widths of a table made 101 wide: (49, 50)
C5_Witness ==
    /\ lastCall = <<"Table::draw">>
    /\ WidthsComputed
    /\ table.width = 101
    /\ table.cols = 2
    /\ getColumnWidth(table, 0) = 49
    /\ getColumnWidth(table, 1) = 50
(***************************************************************************)
(* Claims about the DataPlot domain (checked under SpecPlotting).          *)
(***************************************************************************)

\* the stored x (or y) values are all the same
SameX(p) == \A i \in 0..(p.dataSize - 1) : p.dataX[i] = p.dataX[0]
SameY(p) == \A i \in 0..(p.dataSize - 1) : p.dataY[i] = p.dataY[0]

\* C6: for a non-empty series whose x values are all identical and/or whose
\* y values are all identical, the domain a draw() with auto-scale computes
\* by calculateRanges is finite and strictly positive in width on each axis:
\* maxX - minX > 0 and maxY - minY > 0.
C6_PositiveDomain ==
    (/\ lastCall = <<"DataPlot::draw">>
     /\ plot.visible /\ plot.autoScale /\ plot.dataSize > 0
     /\ SameX(plot) \/ SameY(plot))
    => /\ IsFinite(plot.minX) /\ IsFinite(plot.maxX)
       /\ IsFinite(plot.minY) /\ IsFinite(plot.maxY)
       /\ FGreater[FSub[plot.maxX, plot.minX], FZero]
       /\ FGreater[FSub[plot.maxY, plot.minY], FZero]
(***************************************************************************)
(* Claims about the FunctionPlot (checked under SpecFunction).             *)
(***************************************************************************)

\* the x value of sample i of the plot loop
plotX(fp, i) == sampleX(fp, i, contentRect(fp).contentW)

\* C7: for a FunctionPlot of f(x) = 1/x over an X domain that spans zero,
\* draw() issues no drawLine from the last sample with x < 0 to the first
\* sample with x > 0: the two branches are not connected.
C7_NoLineAcrossZero ==
    (/\ lastCall = <<"FunctionPlot::draw">>
     /\ fplot.function = Reciprocal
     /\ FLess[fplot.minX, FZero] /\ FGreater[fplot.maxX, FZero])
    => \A k \in 1..Len(rendered) :
          rendered[k].call = "drawLine"
          => ~(/\ FLess[plotX(fplot, rendered[k].sample - 1), FZero]
               /\ FGreater[plotX(fplot, rendered[k].sample), FZero])

(***************************************************************************)
(* Claims about animation (checked under SpecText).                        *)
(***************************************************************************)

RECURSIVE SumLen(_)
\* the number of characters in a sequence of lines
SumLen(lines) == IF lines = <<>> THEN 0 ELSE Len(Head(lines)) + SumLen(Tail(lines))

\* the draw() calls of the animated widgets
AnimatedDraws == {<<"TextBox::draw">>, <<"DataPlot::draw">>, <<"FunctionPlot::draw">>}

\* the widget a draw() call is made on, given the three widgets
Drawn(call, tb, p, fp) ==
    IF call = <<"TextBox::draw">> THEN tb
    ELSE IF call = <<"DataPlot::draw">> THEN p ELSE fp

\* the number of elements a draw() call rendered: characters of a TextBox,
\* data points of a DataPlot, sampled columns of a FunctionPlot
Elements(call, r) == IF call = <<"TextBox::draw">> THEN SumLen(r) ELSE Len(r)

\* the element count of a widget: text length, data size, content width
ElementCount(call, tb, p, fp) ==
    IF call = <<"TextBox::draw">> THEN Len(tb.text)
    ELSE IF call = <<"DataPlot::draw">> THEN p.dataSize
    ELSE contentRect(fp).contentW

\* C8: on an animated TextBox, DataPlot or FunctionPlot, every draw() renders
\* at most as many elements as the widget has and at most as many as the
\* animation counter (which N draws from 0 leave at N, or at the element
\* count once that is reached), and a draw() that follows a draw() renders
\* at least as many elements as the one before it.
C8_RevealNonDecreasing ==
    [][\A call \in AnimatedDraws :
          (lastCall' = call /\ Drawn(call, textBox, plot, fplot).animate)
              => /\ Elements(call, rendered') <= ElementCount(call, textBox', plot', fplot')
                 /\ Elements(call, rendered') <= Drawn(call, textBox', plot', fplot').animationFrame
                 /\ lastCall = call => Elements(call, rendered') >= Elements(call, rendered)]_vars

\* C11: in the state a drawAssets() call leaves, draw() was invoked exactly
\* once on every registered asset that is visible and on no other asset.
C11_DrawsEveryVisibleAsset ==
    lastCall = <<"drawAssets">> =>
        \A a \in AssetIds :
            Count(drawLog, a) = IF a \in Range(assets) /\ visible[a] THEN 1 ELSE 0

\* C12: in the state a content-mutating call leaves (setText on a TextBox;
\* addPoint, setData or clearData on a DataPlot; setFunction on a
\* FunctionPlot), the animation counter of that widget is 0.
C12_ContentChangeResetsAnimation ==
    /\ lastCall[1] = "setText" => textBox.animationFrame = 0
    /\ lastCall[1] \in {"addPoint", "setData", "clearData"} => plot.animationFrame = 0
    /\ lastCall[1] = "setFunction" => fplot.animationFrame = 0

\* the fields of a widget other than its animation counter
ExceptCounter(w) == [w EXCEPT !.animationFrame = 0]

\* C13: a draw() call leaves every field of the widget it is made on as it
\* was, the animation counter excepted: position, size, flags, stored domain,
\* data series, cell texts and column widths.
C13_DrawKeepsState ==
    [][/\ lastCall' = <<"DataPlot::draw">> => ExceptCounter(plot') = ExceptCounter(plot)
       /\ lastCall' = <<"FunctionPlot::draw">> => ExceptCounter(fplot') = ExceptCounter(fplot)
       /\ lastCall' = <<"TextBox::draw">> => ExceptCounter(textBox') = ExceptCounter(textBox)
       /\ lastCall' = <<"Table::draw">> => table' = table]_vars

(***************************************************************************)
(* Claims about the reveal animation of the plots (checked under           *)
(* SpecReveal).                                                            *)
(***************************************************************************)

\* the draw() call is made on a DataPlot that is animated, visible and
\* drawable (it holds data)
AnimatedPlotDraw ==
    lastCall' = <<"DataPlot::draw">> /\ plot.animate /\ plot.visible /\ plot.dataSize # 0

\* the draw() call is made on a FunctionPlot that is animated, visible and
\* drawable (it has a function)
AnimatedFPlotDraw ==
    lastCall' = <<"FunctionPlot::draw">> /\ fplot.animate /\ fplot.visible
        /\ fplot.function # NoFunction

\* a draw() of a widget whose counter is k and whose reveal ends at `limit'
\* leaves the counter at k1: one more while k is below the limit, and never
\* raised above the limit
CounterStep(k, k1, limit) ==
    /\ k < limit => k1 = k + 1
    /\ k1 > k => k1 <= limit

\* sample i of the FunctionPlot fp has a finite value inside the Y domain
validSample(fp, i) ==
    LET fy == callFunction(fp.function, sampleX(fp, i, contentRect(fp).contentW))
    IN ~(isnan(fy) \/ isinf(fy) \/ FLess[fy, fp.minY] \/ FGreater[fy, fp.maxY])

\* the points among the first n of the DataPlot p that lie inside its domain
plottedPoints(p, n) == SelectSeq(Indices(0, n), LAMBDA i : inRange(p, i))

\* the samples among the first n of the FunctionPlot fp that are valid
plottedSamples(fp, n) == {i \in 0..(n - 1) : validSample(fp, i)}

\* the samples the drawing calls r were issued for
samplesOf(r) == {r[n].sample : n \in 1..Len(r)}

\* C14 as stated: a draw() of an animated DataPlot or FunctionPlot whose
\* counter k is below the pixel width of the content rectangle raises the
\* counter by one and renders the first k points/samples (those outside the
\* domain are not plotted); no draw() raises the counter above that width.
C14_CounterUpToContentWidth ==
    [][/\ AnimatedPlotDraw =>
            /\ CounterStep(plot.animationFrame, plot'.animationFrame,
                           plotContentRect(plot).contentW)
            /\ plot.animationFrame < plotContentRect(plot).contentW =>
                  /\ plot.animationFrame <= plot.dataSize
                  /\ rendered' = plottedPoints(plot', plot.animationFrame)
       /\ AnimatedFPlotDraw =>
            /\ CounterStep(fplot.animationFrame, fplot'.animationFrame,
                           contentRect(fplot).contentW)
            /\ fplot.animationFrame < contentRect(fplot).contentW =>
                  /\ samplesOf(rendered') = plottedSamples(fplot', fplot.animationFrame)
                  /\ Len(rendered') = Cardinality(samplesOf(rendered'))]_vars

\* C14 as amended: the reveal of a FunctionPlot ends at the pixel width of
\* the content rectangle and the reveal of a DataPlot at the data size.  A
\* draw() of the animated widget whose counter k is below that limit raises
\* the counter by one and renders the first k points/samples (those outside
\* the domain are not plotted); no draw() raises the counter above the limit.
C14_CounterUpToElementCount ==
    [][/\ AnimatedPlotDraw =>
            /\ CounterStep(plot.animationFrame, plot'.animationFrame, plot.dataSize)
            /\ plot.animationFrame < plot.dataSize =>
                  rendered' = plottedPoints(plot', plot.animationFrame)
       /\ AnimatedFPlotDraw =>
            /\ CounterStep(fplot.animationFrame, fplot'.animationFrame,
                           contentRect(fplot).contentW)
            /\ fplot.animationFrame < contentRect(fplot).contentW =>
                  /\ samplesOf(rendered') = plottedSamples(fplot', fplot.animationFrame)
                  /\ Len(rendered') = Cardinality(samplesOf(rendered'))]_vars

\* an animated draw() of a DataPlot raised the counter from 1 to 2 and plotted
\* the first point only
C14_Witness ==
    /\ lastCall = <<"DataPlot::draw">>
    /\ plot.animate
    /\ plot.dataSize = 2
    /\ plot.animationFrame = 2
    /\ rendered = <<0>>

\* C15: a draw() of a DataPlot or FunctionPlot (visible and drawable) whose
\* animation is off and whose counter k stopped inside the reveal (0 < k,
\* and k below the data size / content width) leaves the counter at k and
\* renders the first k points/samples only, the reveal that was reached.
C15_DisabledAnimationFreezes ==
    [][/\ (/\ lastCall' = <<"DataPlot::draw">>
           /\ plot.visible /\ ~plot.animate
           /\ 0 < plot.animationFrame /\ plot.animationFrame < plot.dataSize)
          => /\ plot'.animationFrame = plot.animationFrame
             /\ rendered' = plottedPoints(plot', plot.animationFrame)
       /\ (/\ lastCall' = <<"FunctionPlot::draw">>
           /\ fplot.visible /\ ~fplot.animate /\ fplot.function # NoFunction
           /\ 0 < fplot.animationFrame
           /\ fplot.animationFrame < contentRect(fplot).contentW)
          => /\ fplot'.animationFrame = fplot.animationFrame
             /\ samplesOf(rendered') = plottedSamples(fplot', fplot.animationFrame)]_vars

(***************************************************************************)
(* Claims about the bounds of the Table (checked under SpecCells).         *)
(***************************************************************************)

\* (row, col) is outside the table t
OutsideTable(t, row, col) == ~(row >= 0 /\ row < t.rows /\ col >= 0 /\ col < t.cols)

\* C16: setCell and clearCell with (row, col) outside the table change no
\* cell (nor anything else of the table), getCell with such a (row, col)
\* returns the empty string, and the index the three compute is -1 for a
\* (row, col) outside the table and a position of the rows*cols cell store
\* for one inside, a store that keeps its size.
C16_OutOfBoundsIgnored ==
    [][lastCall'[1] \in {"setCell", "clearCell", "getCell"} =>
        LET row   == lastCall'[2]
            col   == lastCall'[3]
            index == getCellIndex(table, row, col)
        IN /\ DOMAIN table'.cells = 0..(table.rows * table.cols - 1)
           /\ IF OutsideTable(table, row, col)
              THEN /\ index = -1
                   /\ table' = table
                   /\ lastCall'[1] = "getCell" => ret' = <<>>
              ELSE index \in DOMAIN table.cells]_vars

\* a text was set at the column after the last one of the first of two rows
\* (the position after the row's last cell is a cell of the next row) of a
\* table that holds a text
C16_Witness ==
    /\ lastCall[1] = "setCell"
    /\ table.rows = 2
    /\ lastCall[2] = 0
    /\ lastCall[3] = table.cols
    /\ lastCall[4] # <<>>
    /\ \E i \in DOMAIN table.cells : table.cells[i] # <<>>

(***************************************************************************)
(* Claims about resizing a Table (checked under SpecResize).               *)
(***************************************************************************)

C18_OwnedBufferFreedOnce ==
    /\ \A b \in Buffers :
        /\ heap[b].deletes <= 1
        /\ heap[b].owner = "caller" => heap[b].deletes = 0
        /\ (heap[b].owner = "bitmap" /\ heap[b].live) =>
                /\ ~bitmap.destroyed
                /\ bitmap.bitmapData = b
                /\ bitmap.ownsData
    /\ (lastCall = <<"Bitmap::draw">> /\ bitmap.visible /\ bitmap.bitmapData # NULL) =>
            heap[bitmap.bitmapData].live

(***************************************************************************)
(* Claims about the size of an asset (checked under SpecGeometry).         *)
(***************************************************************************)

\* C19: in every reachable state the asset has width >= 0 and height >= 0,
\* whatever sequence of setWidth, setHeight, setSize, setAsRectangle,
\* setAsRoundedRectangle, setAsCircle, setAsLine and setAsTriangle calls is
\* applied.
C19_SizeNeverNegative ==
    /\ geometry.width >= 0
    /\ geometry.height >= 0

(***************************************************************************)
(* Claims about the size of the series (checked under SpecSeries).         *)
(***************************************************************************)

\* the size of the series is within the capacity
SizeWithinCapacity(p) == 0 <= getDataSize(p) /\ getDataSize(p) <= p.dataCapacity

\* C20: after any sequence of addPoint, setData and clearData calls on a
\* DataPlot, 0 <= getDataSize() <= getDataCapacity(); addPoint never
\* decreases the size, and only clearData and setData can reduce it.
C20_SizeWithinCapacity ==
    /\ SizeWithinCapacity(plot)
    /\ [][/\ SizeWithinCapacity(plot')
          /\ lastCall'[1] = "addPoint" => getDataSize(plot') >= getDataSize(plot)
          /\ getDataSize(plot') < getDataSize(plot) =>
                lastCall'[1] \in {"clearData", "setData"}]_vars

(***************************************************************************)
(* Claims about the domain of a DataPlot (checked under SpecDomain).       *)
(***************************************************************************)

\* C21: whenever auto-scale is disabled, draw() maps values with exactly the
\* domain the caller last supplied through setXRange and setYRange,
\* irrespective of earlier draws performed while auto-scale was enabled.
C21_FixedDomainIsTheSuppliedOne ==
    (lastCall = <<"DataPlot::draw">> /\ ~plot.autoScale) =>
        /\ supplied.x # NoDomain => <<plot.minX, plot.maxX>> = supplied.x
        /\ supplied.y # NoDomain => <<plot.minY, plot.maxY>> = supplied.y

(***************************************************************************)
(* Claims about the action queue (checked under SpecDevices).              *)
(***************************************************************************)

OverlapX(a, b) == a.labelX < b.labelX + b.labelW /\ b.labelX < a.labelX + a.labelW

\* C23: within one draw() of a plot with axis labels enabled, no tick label
\* is drawn whose bounding box overlaps the bounding box of the previously
\* drawn label of the same axis (horizontal extents, on the X axis).
C23_NoLabelOverlapsThePrevious ==
    lastCall = <<"DataPlot::draw">> =>
        \A j \in 1..(Len(drawXTickLabels(plot)) - 1) :
            ~OverlapX(drawXTickLabels(plot)[j], drawXTickLabels(plot)[j + 1])

(***************************************************************************)
(* Claims about the polyline of a FunctionPlot (checked under              *)
(* SpecFunction).                                                          *)
(***************************************************************************)

\* where the drawing call r of the plot loop left the pen
PenAfter(r) == IF r.call = "drawLine" THEN <<r.x1, r.y1>> ELSE <<r.x, r.y>>

\* C24: in FunctionPlot::draw a sample whose value is NaN or Inf or lies
\* outside [minY, maxY] is never an endpoint of a drawn line, and the first
\* valid sample after such a sample is drawn as an isolated pixel, not
\* connected to any earlier sample.
C24_InvalidSampleBreaksPolyline ==
    lastCall = <<"FunctionPlot::draw">> =>
        \A j \in 1..Len(rendered) :
            /\ validSample(fplot, rendered[j].sample)
            /\ rendered[j].call = "drawLine" =>
                    /\ j > 1
                    /\ rendered[j - 1].sample = rendered[j].sample - 1
                    /\ <<rendered[j].x0, rendered[j].y0>> = PenAfter(rendered[j - 1])
            /\ (rendered[j].sample = 0 \/ ~validSample(fplot, rendered[j].sample - 1)) =>
                    rendered[j].call = "drawPixel"

\* 1/x on [-10, 10] in a content rectangle of 5 columns: sample 2 is 1/0, and
\* sample 3 is drawn as a pixel
C24_Witness ==
    /\ lastCall = <<"FunctionPlot::draw">>
    /\ fplot.function = Reciprocal
    /\ contentRect(fplot).contentW = 5
    /\ validSample(fplot, 1) /\ ~validSample(fplot, 2)
    /\ \E j \in 1..Len(rendered) :
            rendered[j].sample = 3 /\ rendered[j].call = "drawPixel"

\* ---------------------------------------------------------------------------
\* Narrow tables: auto-fit tables whose columns are 3 to 22 pixels wide, with
\* text in their cells
\* ---------------------------------------------------------------------------

NarrowWidths == {8, 14, 24}

InitNarrow ==
    /\ InitScreenVars
    /\ IdlePlot /\ IdleFPlot /\ IdleText /\ IdleBitmap /\ IdleGeometry /\ IdleRegistry
    /\ \E width \in NarrowWidths, rows \in 1..MaxRows, cols \in 1..MaxCols :
            InitTable(width, 64, rows, cols)
    /\ rendered = <<>>
    /\ InitCaller

NextNarrow ==
    \/ \E row \in 0..(MaxRows - 1), col \in 0..(MaxCols - 1), text \in CellTexts :
            SetCell(row, col, text)
    \/ TableDraw

SpecNarrow == InitNarrow /\ [][NextNarrow]_vars

\* the number of glyphs of the table's text size that fit in cellW pixels
charCapacity(t, cellW) == CDiv(cellW, 6 * t.textSize)

\* C25: when a Table is drawn, the text printed for a cell never has more
\* characters than the cell's character capacity (cell pixel width divided by
\* glyph pixel width), for every column width including columns narrower than
\* one glyph.  (The columns of an auto-fit table are never clipped, so the
\* width of a drawn cell is the width of its column.)
C25_PrintedTextWithinCapacity ==
    lastCall = <<"Table::draw">> =>
        \A i \in 1..Len(rendered) :
            Len(rendered[i][3]) <= charCapacity(table, table.colWidths[rendered[i][2]])

\* ---------------------------------------------------------------------------
\* Gradients: the bits Bitmap::createGradient sets (src/unnamed/part_003)
\* ---------------------------------------------------------------------------

\* isWhite of the loop body of createGradient for the pixel (row, col) of a
\* width x height bitmap; the pixel is bit row * width + col of the new buffer
gradientIsWhite(width, height, row, col, horizontal) ==
    LET threshold == IF horizontal THEN CDiv(col * 100, width)
                                   ELSE CDiv(row * 100, height)
    IN ((row + col) % 4) < (4 - CDiv(threshold, 25))

\* the pixels createGradient sets in the buffer it allocates for bm
gradientPixels(bm, horizontal) ==
    {rc \in (0..(bm.height - 1)) \X (0..(bm.width - 1)) :
        gradientIsWhite(bm.width, bm.height, rc[1], rc[2], horizontal)}

GradientSides == 1..MaxSide

InitGradient ==
    /\ InitScreenVars
    /\ IdlePlot /\ IdleFPlot /\ IdleText /\ IdleTable /\ IdleGeometry /\ IdleRegistry
    /\ \E width \in GradientSides, height \in GradientSides : InitBitmap(width, height)
    /\ rendered = <<>>
    /\ InitCaller

NextGradient ==
    \/ \E horizontal \in BOOLEAN : CreateGradient(horizontal)
    \/ FreeBitmapData
    \/ BitmapDraw

SpecGradient == InitGradient /\ [][NextGradient]_vars

\* the number of pixels set in a column / in a row
setInColumn(pixels, col) == Cardinality({rc \in pixels : rc[2] = col})
setInRow(pixels, row) == Cardinality({rc \in pixels : rc[1] = row})

\* C26: after createGradient on a w x h bitmap the number of set bits per
\* column (horizontal gradient) or per row (vertical gradient) is
\* non-increasing along the chosen axis, for every width and height.
C26_GradientNonIncreasing ==
    (Len(lastCall) = 2 /\ lastCall[1] = "createGradient") =>
        LET pixels == gradientPixels(bitmap, lastCall[2])
        IN IF lastCall[2]
           THEN \A col \in 0..(bitmap.width - 2) :
                    setInColumn(pixels, col + 1) <= setInColumn(pixels, col)
           ELSE \A row \in 0..(bitmap.height - 2) :
                    setInRow(pixels, row + 1) <= setInRow(pixels, row)

\* ---------------------------------------------------------------------------
\* DataPlots of every capacity, including those constructed without arrays
\* ---------------------------------------------------------------------------

\* the indices of dataX and dataY that addPoint reads or writes: dataSize in
\* the first branch; in the second the loop's i and i + 1 for
\* i < dataCapacity - 1, and dataCapacity - 1 for the new point.  (An index
\* outside the arrays is not an element of the model's dataX and dataY, which
\* addPoint(p, x, y) therefore leaves as they are.)
addPointAccesses(p) ==
    IF p.dataSize < p.dataCapacity
    THEN {p.dataSize}
    ELSE UNION {{i, i + 1} : i \in 0..(p.dataCapacity - 2)} \cup {p.dataCapacity - 1}

InitCapacity ==
    /\ InitScreenVars
    /\ \E capacity \in -1..MaxCapacity : InitPlot(capacity)
    /\ IdleTable /\ IdleFPlot /\ IdleText /\ IdleBitmap /\ IdleGeometry /\ IdleRegistry
    /\ rendered = <<>>
    /\ InitCaller

SpecCapacity == InitCapacity /\ [][NextData]_vars

\* C27: addPoint never reads or writes an array element outside the indices
\* [0, capacity), also for a DataPlot constructed with capacity <= 0, whose
\* arrays are not allocated.
C27_AddPointStaysInsideArrays ==
    [][lastCall'[1] = "addPoint" =>
            addPointAccesses(plot) \subseteq 0..(plot.dataCapacity - 1)]_vars

\* C28: in every reachable state of a DataPlot or FunctionPlot the stored
\* domain satisfies minX < maxX and minY < maxY: range setters ignore
\* min >= max, and auto-scaling never stores an empty or inverted range.
C28_DomainNeverEmpty ==
    /\ FLess[plot.minX, plot.maxX] /\ FLess[plot.minY, plot.maxY]
    /\ FLess[fplot.minX, fplot.maxX] /\ FLess[fplot.minY, fplot.maxY]

\* ---------------------------------------------------------------------------
\* Animation counter of a DataPlot under the caller's animation calls
\* ---------------------------------------------------------------------------

\* void DataPlot::resetAnimation()
resetAnimation(p) == [p EXCEPT !.animationFrame = 0]

\* void DataPlot::advanceAnimation()
advanceAnimation(p) ==
    IF p.animationFrame < p.dataSize
    THEN [p EXCEPT !.animationFrame = p.animationFrame + 1] ELSE p

PlotResetAnimation ==
    /\ plot' = resetAnimation(plot)
    /\ rendered' = <<>>
    /\ Called(MaxDataOps, <<"resetAnimation">>, NoRet)
    /\ UNCHANGED <<exceptPlot, added, supplied>>

PlotAdvanceAnimation ==
    /\ plot' = advanceAnimation(plot)
    /\ rendered' = <<>>
    /\ Called(MaxDataOps, <<"advanceAnimation">>, NoRet)
    /\ UNCHANGED <<exceptPlot, added, supplied>>

NextAnimation ==
    \/ \E pt \in ScalePoints : AddPoint(pt[1], pt[2])
    \/ ClearData
    \/ PlotDraw
    \/ \E animate \in BOOLEAN : PlotSetAnimate(animate)
    \/ PlotResetAnimation
    \/ PlotAdvanceAnimation

SpecAnimation == InitPlotting /\ [][NextAnimation]_vars

\* C29: in every reachable state the animation counter of a widget lies
\* between 0 and that widget's reveal bound (TextBox: text length; DataPlot:
\* current data size; FunctionPlot: content-rectangle width).
C29_CounterWithinRevealBound ==
    /\ 0 <= plot.animationFrame /\ plot.animationFrame <= plot.dataSize
    /\ 0 <= textBox.animationFrame /\ textBox.animationFrame <= Len(textBox.text)
    /\ 0 <= fplot.animationFrame /\ fplot.animationFrame <= contentRect(fplot).contentW

(***************************************************************************)
(* The word-wrap loops of TextBox::draw and TextBox::calculateLines        *)
(* (src/src/devices/led_screen/TextBox.cpp), iteration by iteration.  A    *)
(* loop whose iteration leaves its variables as they were never ends; the  *)
(* operators below follow a loop until its condition fails or an iteration *)
(* makes no progress.                                                      *)
(***************************************************************************)

\* void TextBox::setTextSize(uint8_t size)
setTextSize(tb, size) ==
    IF size >= 1 /\ size <= 4 THEN [tb EXCEPT !.textSize = size] ELSE tb

\* maxChars = maxWidth / charWidth of draw and calculateLines
wrapMaxChars(tb) == CDiv(tb.width - 2 * 2, 6 * tb.textSize)

\* the condition of the while loop of TextBox::draw
wrapCondition(tb, remainingText, currentY) ==
    Len(remainingText) > 0 /\ currentY + 8 * tb.textSize <= tb.y + tb.height - 2

\* no iteration: the loop variables of draw are left as they are
wrapStepNoAdvance(tb, remainingText, currentY) ==
    [remainingText |-> breakLine(remainingText, wrapMaxChars(tb)).remainingText,
     currentY      |-> currentY]

\* one iteration of the while loop of TextBox::draw: the loop variables after
\* it
wrapStep(tb, remainingText, currentY) ==
    [remainingText |-> breakLine(remainingText, wrapMaxChars(tb)).remainingText,
     currentY      |-> currentY + 8 * tb.textSize]

\* remainingText got shorter or currentY moved toward the bottom of the box
wrapProgress(remainingText, currentY, after) ==
    Len(after.remainingText) < Len(remainingText) \/ after.currentY > currentY

RECURSIVE wrapLoop(_, _, _)
\* the values of (remainingText, currentY) at the head of the loop of draw,
\* up to the first that fails the loop condition or that an iteration does
\* not move on from
wrapLoop(tb, remainingText, currentY) ==
    LET here  == [remainingText |-> remainingText, currentY |-> currentY]
        after == wrapStep(tb, remainingText, currentY)
    IN IF wrapCondition(tb, remainingText, currentY)
          /\ wrapProgress(remainingText, currentY, after)
       THEN <<here>> \o wrapLoop(tb, after.remainingText, after.currentY)
       ELSE <<here>>

\* the string draw() wraps: the part of the text revealed so far
displayString(tb) ==
    IF tb.animate /\ tb.animationFrame < Len(tb.text)
    THEN substring(tb.text, 0, tb.animationFrame) ELSE tb.text

\* one iteration of the while loop of calculateLines, which leaves the loop
\* by break when the remaining text fits a line
linesStep(s, maxChars) ==
    IF fitsLine(s.remainingText, maxChars)
    THEN [s EXCEPT !.lines = s.lines + 1, !.left = TRUE]
    ELSE [remainingText |-> breakLine(s.remainingText, maxChars).remainingText,
          lines         |-> s.lines + 1,
          left          |-> FALSE]

\* the condition under which calculateLines enters the next iteration
linesCondition(s) == ~s.left /\ Len(s.remainingText) > 0

RECURSIVE linesLoop(_, _)
\* the loop variables of calculateLines at the head of the loop, up to the
\* first that end the loop or that an iteration does not move on from
linesLoop(s, maxChars) ==
    LET after == linesStep(s, maxChars)
    IN IF linesCondition(s)
          /\ (after.left \/ Len(after.remainingText) < Len(s.remainingText))
       THEN <<s>> \o linesLoop(after, maxChars)
       ELSE <<s>>

\* the loop of calculateLines on the text of tb
linesOf(tb) ==
    linesLoop([remainingText |-> tb.text, lines |-> 0, left |-> FALSE], wrapMaxChars(tb))

\* int TextBox::calculateLines() const
calculateLines(tb) ==
    IF ~tb.wordWrap \/ Len(tb.text) = 0 THEN (IF Len(tb.text) > 0 THEN 1 ELSE 0)
    ELSE IF wrapMaxChars(tb) <= 0 THEN 0
    ELSE linesOf(tb)[Len(linesOf(tb))].lines

SetTextSize(size) ==
    /\ textBox' = setTextSize(textBox, size)
    /\ rendered' = <<>>
    /\ Called(MaxTextOps, <<"setTextSize", size>>, NoRet)
    /\ UNCHANGED exceptText

CalculateLines ==
    /\ rendered' = <<>>
    /\ Called(MaxTextOps, <<"calculateLines">>, calculateLines(textBox))
    /\ UNCHANGED <<exceptText, textBox>>

\* box widths with room for -2, 0, 0, 2 and 4 characters to the line
WrapWidths == {-8, 2, 9, 16, 28}

InitWrap ==
    /\ InitScreenVars
    /\ IdlePlot /\ IdleFPlot /\ IdleTable /\ IdleBitmap /\ IdleGeometry /\ IdleRegistry
    /\ \E width \in WrapWidths, height \in TextHeights, text \in Texts :
            InitText(width, height, text)
    /\ rendered = <<>>
    /\ InitCaller

NextWrap ==
    \/ TextDraw
    \/ CalculateLines
    \/ \E text \in Texts : SetText(text)
    \/ \E size \in {0, 1, 2, 5} : SetTextSize(size)
    \/ \E animate \in BOOLEAN : TextSetAnimate(animate)

SpecWrap == InitWrap /\ [][NextWrap]_vars

\* the loop of draw() on tb ends: the last loop state fails the condition
wrapLoopEnds(tb) ==
    LET trace == wrapLoop(tb, displayString(tb), tb.y + 2)
        last  == trace[Len(trace)]
    IN ~wrapCondition(tb, last.remainingText, last.currentY)

\* the loop of calculateLines on tb ends, when it is entered
linesLoopEnds(tb) ==
    (tb.wordWrap /\ Len(tb.text) > 0 /\ wrapMaxChars(tb) > 0) =>
        ~linesCondition(linesOf(tb)[Len(linesOf(tb))])

====
